---------------------------- MODULE Spec2Model ----------------------------
(***************************************************************************)
(* A model of the financial dashboard: the row classifier and the loader   *)
(* of data.py, the KPI functions of metrics.py, and the upload merger and  *)
(* the page computations of app.py.  Tables are pandas DataFrames: a set   *)
(* of column names and a sequence of rows.  Amounts are integers (the      *)
(* floating point of the code idealised to exact arithmetic).              *)
(***************************************************************************)
EXTENDS Integers, Sequences, FiniteSets, TLC

VARIABLES
    crow,       \* the row handed to _infer_group (classifier runs)
    cgroup,     \* what _infer_group returned for crow
    src,        \* the transaction file on disk (01.xlsx) as read by read_excel
    bsrc,       \* the budget file on disk (02_budget.xlsx), or NoFile
    loaded,     \* outcome of the last load_all(): status, tx, bd
    tx_user,    \* st.session_state.tx_user
    bd_user,    \* st.session_state.bd_user
    view        \* what the last script run computed for the page shown

vars == <<crow, cgroup, src, bsrc, loaded, tx_user, bd_user, view>>

-----------------------------------------------------------------------------
(* Text.  A Python str is the sequence of its characters; Chars spells the *)
(* strings the model uses.  strip, lower, upper, startswith and `in` work  *)
(* on the characters, as the str methods do.                               *)

Spelling(s) ==
    CASE s = "revenue" -> <<"r", "e", "v", "e", "n", "u", "e">>
      [] s = "expenses" -> <<"e", "x", "p", "e", "n", "s", "e", "s">>
      [] s = "COS" -> <<"C", "O", "S">>
      [] s = "G&A" -> <<"G", "&", "A">>
      [] s = "GA" -> <<"G", "A">>
      [] s = "GNA" -> <<"G", "N", "A">>
      [] s = "cost of sales" -> <<"c", "o", "s", "t", " ", "o", "f", " ", "s", "a", "l", "e", "s">>
      [] s = "general & administrative" -> <<"g", "e", "n", "e", "r", "a", "l", " ", "&", " ", "a", "d", "m", "i", "n", "i", "s", "t", "r", "a", "t", "i", "v", "e">>
      [] s = "general and administrative" -> <<"g", "e", "n", "e", "r", "a", "l", " ", "a", "n", "d", " ", "a", "d", "m", "i", "n", "i", "s", "t", "r", "a", "t", "i", "v", "e">>
      [] s = "other income" -> <<"o", "t", "h", "e", "r", " ", "i", "n", "c", "o", "m", "e">>
      [] s = "nan" -> <<"n", "a", "n">>
      [] s = "Revenue" -> <<"R", "e", "v", "e", "n", "u", "e">>
      [] s = " REVENUE " -> <<" ", "R", "E", "V", "E", "N", "U", "E", " ">>
      [] s = "Expenses " -> <<"E", "x", "p", "e", "n", "s", "e", "s", " ">>
      [] s = "EXPENSES" -> <<"E", "X", "P", "E", "N", "S", "E", "S">>
      [] s = "assets" -> <<"a", "s", "s", "e", "t", "s">>
      [] s = "expense" -> <<"e", "x", "p", "e", "n", "s", "e">>
      [] s = "" -> <<>>
      [] s = "cos" -> <<"c", "o", "s">>
      [] s = " Cos " -> <<" ", "C", "o", "s", " ">>
      [] s = "g&a" -> <<"g", "&", "a">>
      [] s = " ga" -> <<" ", "g", "a">>
      [] s = "OI" -> <<"O", "I">>
      [] s = "COST" -> <<"C", "O", "S", "T">>
      [] s = "Other Income" -> <<"O", "t", "h", "e", "r", " ", "I", "n", "c", "o", "m", "e">>
      [] s = "Cost of Sales - Materials" -> <<"C", "o", "s", "t", " ", "o", "f", " ", "S", "a", "l", "e", "s", " ", "-", " ", "M", "a", "t", "e", "r", "i", "a", "l", "s">>
      [] s = " COST OF SALES" -> <<" ", "C", "O", "S", "T", " ", "O", "F", " ", "S", "A", "L", "E", "S">>
      [] s = "Total cost of sales" -> <<"T", "o", "t", "a", "l", " ", "c", "o", "s", "t", " ", "o", "f", " ", "s", "a", "l", "e", "s">>
      [] s = "General & Administrative" -> <<"G", "e", "n", "e", "r", "a", "l", " ", "&", " ", "A", "d", "m", "i", "n", "i", "s", "t", "r", "a", "t", "i", "v", "e">>
      [] s = "Office general and administrative" -> <<"O", "f", "f", "i", "c", "e", " ", "g", "e", "n", "e", "r", "a", "l", " ", "a", "n", "d", " ", "a", "d", "m", "i", "n", "i", "s", "t", "r", "a", "t", "i", "v", "e">>
      [] s = "Assets" -> <<"A", "s", "s", "e", "t", "s">>
      [] s = "Date" -> <<"D", "a", "t", "e">>
      [] s = "AMOUNT" -> <<"A", "M", "O", "U", "N", "T">>
      [] s = "REVENUE/EXPENSES" -> <<"R", "E", "V", "E", "N", "U", "E", "/", "E", "X", "P", "E", "N", "S", "E", "S">>
      [] s = "Short_CLASS" -> <<"S", "h", "o", "r", "t", "_", "C", "L", "A", "S", "S">>
      [] s = "CLASS" -> <<"C", "L", "A", "S", "S">>
      [] s = "ACCOUNT" -> <<"A", "C", "C", "O", "U", "N", "T">>
      [] s = " Date" -> <<" ", "D", "a", "t", "e">>
      [] s = "AMOUNT " -> <<"A", "M", "O", "U", "N", "T", " ">>
      [] s = "DATE" -> <<"D", "A", "T", "E">>
      [] s = "BUDGET" -> <<"B", "U", "D", "G", "E", "T">>
      [] s = "budget_amount" -> <<"b", "u", "d", "g", "e", "t", "_", "a", "m", "o", "u", "n", "t">>
      [] s = "date" -> <<"d", "a", "t", "e">>
      [] s = "year" -> <<"y", "e", "a", "r">>
      [] s = "month" -> <<"m", "o", "n", "t", "h">>
      [] s = "account_group" -> <<"a", "c", "c", "o", "u", "n", "t", "_", "g", "r", "o", "u", "p">>
      [] s = "signed_amount" -> <<"s", "i", "g", "n", "e", "d", "_", "a", "m", "o", "u", "n", "t">>
      [] s = "EXTRA" -> <<"E", "X", "T", "R", "A">>

\* the strings the model spells
Texts ==
    {"revenue", "expenses", "COS", "G&A", "GA", "GNA", "cost of sales",
     "general & administrative", "general and administrative",
     "other income", "nan", "Revenue", " REVENUE ", "Expenses ",
     "EXPENSES", "assets", "expense", "", "cos", " Cos ", "g&a", " ga",
     "OI", "COST", "Other Income", "Cost of Sales - Materials",
     " COST OF SALES", "Total cost of sales", "General & Administrative",
     "Office general and administrative", "Assets", "Date", "AMOUNT",
     "REVENUE/EXPENSES", "Short_CLASS", "CLASS", "ACCOUNT", " Date",
     "AMOUNT ", "DATE", "BUDGET", "budget_amount", "date", "year", "month",
     "account_group", "signed_amount", "EXTRA"}

\* the spelling of every string, looked up
Spelled == [s \in Texts |-> Spelling(s)]

Chars(s) == Spelled[s]

UpperCase ==
    <<"A", "B", "C", "D", "E", "F", "G", "H", "I", "J", "K", "L", "M",
      "N", "O", "P", "Q", "R", "S", "T", "U", "V", "W", "X", "Y", "Z">>

LowerCase ==
    <<"a", "b", "c", "d", "e", "f", "g", "h", "i", "j", "k", "l", "m",
      "n", "o", "p", "q", "r", "s", "t", "u", "v", "w", "x", "y", "z">>

LowerChar(c) ==
    IF \E i \in DOMAIN UpperCase : UpperCase[i] = c
    THEN LowerCase[CHOOSE i \in DOMAIN UpperCase : UpperCase[i] = c]
    ELSE c

UpperChar(c) ==
    IF \E i \in DOMAIN LowerCase : LowerCase[i] = c
    THEN UpperCase[CHOOSE i \in DOMAIN LowerCase : LowerCase[i] = c]
    ELSE c

Lower(cs) == [i \in DOMAIN cs |-> LowerChar(cs[i])]

Upper(cs) == [i \in DOMAIN cs |-> UpperChar(cs[i])]

IsSpace(c) == c = " "

RECURSIVE LStrip(_)
LStrip(cs) ==
    IF cs # <<>> /\ IsSpace(Head(cs)) THEN LStrip(Tail(cs)) ELSE cs

RECURSIVE RStrip(_)
RStrip(cs) ==
    IF cs # <<>> /\ IsSpace(cs[Len(cs)])
    THEN RStrip(SubSeq(cs, 1, Len(cs) - 1))
    ELSE cs

Strip(cs) == RStrip(LStrip(cs))

StartsWith(cs, p) ==
    Len(p) <= Len(cs) /\ SubSeq(cs, 1, Len(p)) = p

Contains(cs, p) ==
    \E i \in 0 .. (Len(cs) - Len(p)) : SubSeq(cs, i + 1, i + Len(p)) = p

\* a missing cell of a text column (None / NaN in an object column)
Null == "NULL"

\* str(x) of a cell: str(nan) is "nan"
Str(cell) == IF cell = Null THEN Chars("nan") ELSE Chars(cell)

-----------------------------------------------------------------------------
(* data.py: the row classifier                                             *)

Groups == {"Revenue", "COGS", "OPEX"}

\* the Python None that _infer_group returns for a row outside the P&L
NoGroup == Null

\* a classifier that reads the class text before the abbreviation
_infer_group_classfirst(row) ==
    LET side  == Lower(Strip(Str(row.side)))
        short == Upper(Strip(Str(row.Short_CLASS)))
        full  == Lower(Strip(Str(row.CLASS)))
    IN  IF side = Chars("revenue") THEN "Revenue"
        ELSE IF side = Chars("expenses") THEN
            IF StartsWith(full, Chars("cost of sales")) THEN "COGS"
            ELSE IF \/ Contains(full, Chars("general & administrative"))
                    \/ Contains(full, Chars("general and administrative"))
                 THEN "OPEX"
            ELSE IF short = Chars("COS") THEN "COGS"
            ELSE IF short \in {Chars("G&A"), Chars("GA"), Chars("GNA")} THEN "OPEX"
            ELSE NoGroup
        ELSE NoGroup

_infer_group(row) ==
    LET side  == Lower(Strip(Str(row.side)))
        short == Upper(Strip(Str(row.Short_CLASS)))
        full  == Lower(Strip(Str(row.CLASS)))
    IN  IF side = Chars("revenue") THEN "Revenue"
        ELSE IF side = Chars("expenses") THEN
            IF short = Chars("COS") THEN "COGS"
            ELSE IF short \in {Chars("G&A"), Chars("GA"), Chars("GNA")} THEN "OPEX"
            ELSE IF StartsWith(full, Chars("cost of sales")) THEN "COGS"
            ELSE IF \/ Contains(full, Chars("general & administrative"))
                    \/ Contains(full, Chars("general and administrative"))
                 THEN "OPEX"
            ELSE NoGroup
        ELSE NoGroup

-----------------------------------------------------------------------------
(* Cells and tables                                                        *)

\* np.nan: the missing number.  Sums skip it, comparisons with it are false.
NaN == -999999

\* a text cell (such as "n/a") standing in a numeric column
StrCell == NaN - 1

\* pd.NaT: .dt.year and .dt.month of it are NaN
NaT == [y |-> NaN, m |-> NaN]

IsNum(x) == x # NaN /\ x # StrCell

Abs(x) == IF x < 0 THEN 0 - x ELSE x

\* pd.to_numeric(x, errors="coerce")
to_numeric(x) == IF IsNum(x) THEN x ELSE NaN

\* .fillna(0)
fillna0(x) == IF x = NaN THEN 0 ELSE x

\* pd.to_datetime(cell, errors="coerce") on the date cells the model uses
to_datetime(cell) ==
    CASE cell = "2023-01-20" -> [y |-> 2023, m |-> 1]
      [] cell = "2023-12-05" -> [y |-> 2023, m |-> 12]
      [] cell = "2024-01-15" -> [y |-> 2024, m |-> 1]
      [] cell = "2024-04-30" -> [y |-> 2024, m |-> 4]
      [] cell = "2024-09-09" -> [y |-> 2024, m |-> 9]
      [] OTHER -> NaT

\* the columns a transaction table can carry; "REVENUE/EXPENSES" is field side
TxColumns ==
    {"Date", "AMOUNT", "REVENUE/EXPENSES", "Short_CLASS", "CLASS", "ACCOUNT",
     "date", "year", "month", "account_group", "signed_amount"}

\* a row with every cell missing
BlankRow ==
    [Date |-> Null, AMOUNT |-> NaN, side |-> Null, Short_CLASS |-> Null,
     CLASS |-> Null, ACCOUNT |-> Null, date |-> NaT, year |-> NaN,
     month |-> NaN, account_group |-> Null, signed_amount |-> NaN]

\* df[cols] on one row: the cells of the columns kept, the others gone
Project(r, cols) ==
    [Date          |-> IF "Date" \in cols THEN r.Date ELSE BlankRow.Date,
     AMOUNT        |-> IF "AMOUNT" \in cols THEN r.AMOUNT ELSE BlankRow.AMOUNT,
     side          |-> IF "REVENUE/EXPENSES" \in cols THEN r.side ELSE BlankRow.side,
     Short_CLASS   |-> IF "Short_CLASS" \in cols THEN r.Short_CLASS ELSE BlankRow.Short_CLASS,
     CLASS         |-> IF "CLASS" \in cols THEN r.CLASS ELSE BlankRow.CLASS,
     ACCOUNT       |-> IF "ACCOUNT" \in cols THEN r.ACCOUNT ELSE BlankRow.ACCOUNT,
     date          |-> IF "date" \in cols THEN r.date ELSE BlankRow.date,
     year          |-> IF "year" \in cols THEN r.year ELSE BlankRow.year,
     month         |-> IF "month" \in cols THEN r.month ELSE BlankRow.month,
     account_group |-> IF "account_group" \in cols THEN r.account_group
                       ELSE BlankRow.account_group,
     signed_amount |-> IF "signed_amount" \in cols THEN r.signed_amount
                       ELSE BlankRow.signed_amount]

\* a DataFrame
Table(cols, rows) == [none |-> FALSE, cols |-> cols, rows |-> rows]

\* Python None where a DataFrame may stand
None == [none |-> TRUE, cols |-> {}, rows |-> <<>>]

MapRows(rows, F(_)) == [i \in DOMAIN rows |-> F(rows[i])]

Range(s) == {s[i] : i \in DOMAIN s}

RECURSIVE SumSeq(_)
SumSeq(xs) ==
    IF xs = <<>> THEN 0
    ELSE (IF IsNum(Head(xs)) THEN Head(xs) ELSE 0) + SumSeq(Tail(xs))

\* Series.sum() of signed_amount (NaN skipped)
SumSigned(rows) == SumSeq([i \in DOMAIN rows |-> rows[i].signed_amount])

RECURSIVE SortedSeq(_)
SortedSeq(S) ==
    IF S = {} THEN <<>>
    ELSE LET lo == CHOOSE x \in S : \A y \in S : x <= y
         IN  <<lo>> \o SortedSeq(S \ {lo})

\* groupby sorts its keys: the group names in alphabetical order
GroupOrder == <<"COGS", "OPEX", "Revenue">>

\* the columns a budget table can carry
BudgetColumns == {"year", "month", "account_group", "budget_amount"}

\* a budget line with every cell missing
BlankBudgetLine ==
    [date |-> Null, year |-> NaN, month |-> NaN, account_group |-> Null,
     budget_amount |-> NaN]

-----------------------------------------------------------------------------
(* data.py: load_all                                                       *)

\* the headers a file of the model can carry, padded ones included
HeaderNames ==
    TxColumns \cup {"DATE", "BUDGET", "budget_amount", "EXTRA", " Date", "AMOUNT "}

\* c.strip() of every header name
StrippedHeader ==
    [h \in HeaderNames |->
        CHOOSE c \in TxColumns \cup {"DATE", "BUDGET", "budget_amount", "EXTRA"} :
            Chars(c) = Strip(Chars(h))]

\* _norm_cols: every header stripped
_norm_cols(headers) == {StrippedHeader[h] : h \in headers}

\* a check that does not ask for the REVENUE/EXPENSES column
RequiredColumns_noside == {"Date", "AMOUNT"}

RequiredColumns == {"Date", "AMOUNT", "REVENUE/EXPENSES"}

\* sign_amt raises TypeError: abs() of a text cell
sign_amt_raises(row) ==
    row.account_group \in Groups /\ row.AMOUNT = StrCell

\* a sign_amt that trusts the sign of AMOUNT
sign_amt_nosign(row) ==
    LET grp == row.account_group
        amt == row.AMOUNT
    IN  IF grp = "Revenue" THEN (IF amt = NaN THEN NaN ELSE amt)
        ELSE IF grp \in {"COGS", "OPEX"} THEN (IF amt = NaN THEN NaN ELSE 0 - amt)
        ELSE NaN

sign_amt(row) ==
    LET grp == row.account_group
        amt == row.AMOUNT
    IN  IF grp = "Revenue" THEN (IF amt = NaN THEN NaN ELSE Abs(amt))
        ELSE IF grp \in {"COGS", "OPEX"} THEN (IF amt = NaN THEN NaN ELSE 0 - Abs(amt))
        ELSE NaN

\* lines 43-53: date, year, month, the defaulted class columns, account_group
derive_tx_row(r, cols) ==
    LET d  == to_datetime(r.Date)
        r1 == [r EXCEPT !.date = d, !.year = d.y, !.month = d.m,
                        !.Short_CLASS = IF "Short_CLASS" \in cols THEN @ ELSE "",
                        !.CLASS = IF "CLASS" \in cols THEN @ ELSE ""]
    IN  [r1 EXCEPT !.account_group = _infer_group(r1)]

\* a budget frame without its columns
empty_budget_nocols == Table({}, <<>>)

\* line 69: pd.DataFrame(columns=["year", "account_group", "budget_amount"])
empty_budget == Table({"year", "account_group", "budget_amount"}, <<>>)

\* the budget table of load_all, lines 69-97
load_budget(b) ==
    IF ~b.exists THEN empty_budget
    ELSE
    LET cols   == _norm_cols(b.cols)
        raw(r) == IF "DATE" \in cols THEN r.DATE
                  ELSE IF "Date" \in cols THEN r.Date ELSE Null
        cell(r, c, dflt) == IF c \in cols THEN r[c] ELSE dflt
        grp(r) == _infer_group([side        |-> IF "REVENUE/EXPENSES" \in cols
                                                THEN r.side ELSE "",
                                Short_CLASS |-> cell(r, "Short_CLASS", ""),
                                CLASS       |-> cell(r, "CLASS", "")])
        amt(r) == IF "BUDGET" \in cols THEN r.BUDGET
                  ELSE IF "budget_amount" \in cols THEN r.budget_amount ELSE 0
        yr(r)  == to_datetime(raw(r)).y
        kept   == SelectSeq(b.rows, LAMBDA r : grp(r) # Null /\ yr(r) # NaN)
        years  == SortedSeq({yr(kept[i]) : i \in DOMAIN kept})
        cellsOf(y, g) == SelectSeq(kept, LAMBDA r : yr(r) = y /\ grp(r) = g)
        line(y, g) == [BlankBudgetLine EXCEPT
                          !.year = y, !.account_group = g,
                          !.budget_amount =
                              SumSeq([i \in DOMAIN cellsOf(y, g) |-> amt(cellsOf(y, g)[i])])]
        RECURSIVE build(_, _)
        build(yi, gi) ==
            IF yi > Len(years) THEN <<>>
            ELSE IF gi > Len(GroupOrder) THEN build(yi + 1, 1)
            ELSE (IF cellsOf(years[yi], GroupOrder[gi]) = <<>> THEN <<>>
                  ELSE <<line(years[yi], GroupOrder[gi])>>)
                 \o build(yi, gi + 1)
    IN  Table({"year", "account_group", "budget_amount"}, build(1, 1))

\* the outcome of load_all: an exception, or the two tables
load_all(s, b) ==
    LET cols == _norm_cols(s.cols)
        rows == MapRows(s.rows, LAMBDA r : derive_tx_row(r, cols))
    IN  IF ~(RequiredColumns \subseteq cols)
        THEN [status |-> "ValueError", tx |-> None, bd |-> None]
        ELSE IF \E i \in DOMAIN rows : sign_amt_raises(rows[i])
        THEN [status |-> "TypeError", tx |-> None, bd |-> None]
        ELSE [status |-> "ok",
              tx |-> Table(cols \cup {"date", "year", "month", "Short_CLASS",
                                      "CLASS", "account_group", "signed_amount"},
                           SelectSeq(MapRows(rows,
                                LAMBDA r : [r EXCEPT !.signed_amount = sign_amt(r)]),
                                LAMBDA r : r.signed_amount # NaN)),
              bd |-> load_budget(b)]

-----------------------------------------------------------------------------
(* app.py: normalising an uploaded file and applying it                    *)

\* DataFrame.empty: no rows, or no columns
empty(t) == t.rows = <<>> \/ t.cols = {}

\* _ensure_period_cols on one row: year and month from the date column
_ensure_period_cols(r, cols) ==
    IF "date" \in cols
    THEN LET d == to_datetime(r.date)
         IN  [r EXCEPT !.date = d, !.year = d.y, !.month = d.m]
    ELSE r

_ensure_period_cols_of(cols) ==
    IF "date" \in cols THEN cols \cup {"year", "month"} ELSE cols

\* lines 69-77: does the upload get a signed_amount column derived
derives_signed(cols) == "signed_amount" \notin cols /\ "AMOUNT" \in cols

\* line 73, -df["AMOUNT"].abs(), raises TypeError on a text cell
_normalize_uploaded_tx_raises(df) ==
    LET cols == _ensure_period_cols_of(df.cols)
    IN  /\ derives_signed(cols)
        /\ "account_group" \in cols
        /\ \E i \in DOMAIN df.rows : df.rows[i].AMOUNT = StrCell

\* lines 71-77 on one row
derive_signed(r, cols) ==
    IF "account_group" \in cols
    THEN IF r.account_group = "Revenue" THEN r.AMOUNT
         ELSE IF r.AMOUNT = NaN THEN NaN ELSE 0 - Abs(r.AMOUNT)
    ELSE to_numeric(r.AMOUNT)

_normalize_uploaded_tx(df, tx_template) ==
    LET cols1 == _ensure_period_cols_of(df.cols)
        cols2 == IF derives_signed(cols1) THEN cols1 \cup {"signed_amount"} ELSE cols1
        keep  == cols2 \cap tx_template.cols
        norm(r) ==
            LET r1 == _ensure_period_cols(r, df.cols)
                r2 == IF derives_signed(cols1)
                      THEN [r1 EXCEPT !.signed_amount = derive_signed(r1, cols1)]
                      ELSE r1
                r3 == Project(r2, keep)
            IN  IF "signed_amount" \in keep
                THEN [r3 EXCEPT !.signed_amount = fillna0(to_numeric(@))]
                ELSE r3
    IN  Table(keep, MapRows(df.rows, norm))

ProjectBudget(r, cols) ==
    [date          |-> IF "date" \in cols THEN r.date ELSE BlankBudgetLine.date,
     year          |-> IF "year" \in cols THEN r.year ELSE BlankBudgetLine.year,
     month         |-> IF "month" \in cols THEN r.month ELSE BlankBudgetLine.month,
     account_group |-> IF "account_group" \in cols THEN r.account_group
                       ELSE BlankBudgetLine.account_group,
     budget_amount |-> IF "budget_amount" \in cols THEN r.budget_amount
                       ELSE BlankBudgetLine.budget_amount]

\* lines 98-105: the header guesses
rename_budget(cols) ==
    LET m1 == IF "amount" \in cols /\ "budget_amount" \notin cols
              THEN (cols \ {"amount"}) \cup {"budget_amount"} ELSE cols
        m2 == IF "Budget" \in cols /\ "budget_amount" \notin cols
              THEN (m1 \ {"Budget"}) \cup {"budget_amount"} ELSE m1
        m3 == IF "Date" \in cols /\ "date" \notin cols
              THEN (m2 \ {"Date"}) \cup {"date"} ELSE m2
    IN  m3

_normalize_uploaded_budget(df, bd_template) ==
    LET cols0 == rename_budget(df.cols)
        cols1 == _ensure_period_cols_of(cols0)
        keep  == cols1 \cap bd_template.cols
        norm(r) ==
            LET d  == to_datetime(r.date)
                r1 == IF "date" \in cols0
                      THEN [r EXCEPT !.year = d.y, !.month = d.m] ELSE r
                r2 == ProjectBudget(r1, keep)
            IN  IF "budget_amount" \in keep
                THEN [r2 EXCEPT !.budget_amount = fillna0(to_numeric(@))]
                ELSE r2
    IN  Table(keep, MapRows(df.rows, norm))

\* pd.concat([old[aligned_cols], new[aligned_cols]], ignore_index=True)
concat_tx(old, new, aligned_cols) ==
    Table(aligned_cols,
          MapRows(old.rows, LAMBDA r : Project(r, aligned_cols))
          \o MapRows(new.rows, LAMBDA r : Project(r, aligned_cols)))

concat_bd(old, new, aligned_cols) ==
    Table(aligned_cols,
          MapRows(old.rows, LAMBDA r : ProjectBudget(r, aligned_cols))
          \o MapRows(new.rows, LAMBDA r : ProjectBudget(r, aligned_cols)))

\* no file chosen in a file_uploader
NoUpload == [chosen |-> FALSE, readable |-> TRUE, cols |-> {}, rows |-> <<>>]

apply_tx_appendalways(up_tx, mode, tx, old_user) ==
    IF ~up_tx.chosen THEN (IF mode = "Replace" THEN None ELSE old_user)
    ELSE LET tx_new == _normalize_uploaded_tx(up_tx, tx)
         IN  concat_tx(tx, tx_new, tx_new.cols \cap tx.cols)

\* lines 129-142: the transactions half of "Apply uploads"
apply_tx(up_tx, mode, tx, old_user) ==
    IF ~up_tx.chosen THEN (IF mode = "Replace" THEN None ELSE old_user)
    ELSE LET tx_new == _normalize_uploaded_tx(up_tx, tx)
         IN  IF mode = "Replace" THEN tx_new
             ELSE concat_tx(tx, tx_new, tx_new.cols \cap tx.cols)

apply_tx_raises(up_tx) ==
    up_tx.chosen /\ (~up_tx.readable \/ _normalize_uploaded_tx_raises(up_tx))

\* a budget half that keeps the override whenever no file is chosen
apply_bd_keepalways(up_bd, mode, bd, old_user) ==
    IF ~up_bd.chosen THEN old_user
    ELSE LET bd_new == _normalize_uploaded_budget(up_bd, bd)
         IN  IF mode = "Replace" THEN bd_new
             ELSE concat_bd(bd, bd_new, bd_new.cols \cap bd.cols)

\* lines 144-156: the budget half
apply_bd(up_bd, mode, bd, old_user) ==
    IF ~up_bd.chosen THEN (IF mode = "Replace" THEN None ELSE old_user)
    ELSE LET bd_new == _normalize_uploaded_budget(up_bd, bd)
         IN  IF mode = "Replace" THEN bd_new
             ELSE concat_bd(bd, bd_new, bd_new.cols \cap bd.cols)

apply_bd_raises(up_bd) == up_bd.chosen /\ ~up_bd.readable

\* lines 127-160: the session overrides after the button, <<tx_user, bd_user>>
apply_uploads(up_tx, up_bd, mode, tx, bd, old_tx, old_bd) ==
    IF apply_tx_raises(up_tx) THEN <<old_tx, old_bd>>
    ELSE IF apply_bd_raises(up_bd) THEN <<apply_tx(up_tx, mode, tx, old_tx), old_bd>>
    ELSE <<apply_tx(up_tx, mode, tx, old_tx), apply_bd(up_bd, mode, bd, old_bd)>>

\* a selection that never looks at the session
working_tx_loadedalways(ld, user) == ld.tx

\* lines 162-166: the tables the pages work on
working_tx(ld, user) == IF user.none THEN ld.tx ELSE user

working_bd(ld, user) == IF user.none THEN ld.bd ELSE user

-----------------------------------------------------------------------------
(* metrics.py                                                              *)

\* df.loc[df["account_group"].eq(g), "signed_amount"].sum()
GroupSum(rows, g) == SumSigned(SelectSeq(rows, LAMBDA r : r.account_group = g))

kpis_needs == {"account_group", "signed_amount"}

\* kpis with the cost sums subtracted
kpis_minus(df) ==
    LET rev  == GroupSum(df.rows, "Revenue")
        cogs == GroupSum(df.rows, "COGS")
        opex == GroupSum(df.rows, "OPEX")
        gross_profit == rev - cogs
        ebit == gross_profit - opex
    IN  [Revenue |-> rev, Gross_Profit |-> gross_profit, EBIT |-> ebit]

kpis(df) ==
    LET rev  == GroupSum(df.rows, "Revenue")
        cogs == GroupSum(df.rows, "COGS")
        opex == GroupSum(df.rows, "OPEX")
        gross_profit == rev + cogs
        ebit == gross_profit + opex
    IN  [Revenue |-> rev, Gross_Profit |-> gross_profit, EBIT |-> ebit]

monthly_pnl_needs == {"year", "month", "account_group", "signed_amount"}

\* groupby drops the rows with a missing key
HasKeys(r) == r.year # NaN /\ r.month # NaN /\ r.account_group # Null

PeriodKey(r) == r.year * 100 + r.month

\* a monthly table that keeps the first row of each cell instead of the sum
monthly_pnl_firstonly(df) ==
    LET keyed == SelectSeq(df.rows, HasKeys)
        keys  == SortedSeq({PeriodKey(keyed[i]) : i \in DOMAIN keyed})
        first(k, g) ==
            LET c == SelectSeq(keyed, LAMBDA r : PeriodKey(r) = k /\ r.account_group = g)
            IN  IF c = <<>> THEN 0 ELSE fillna0(c[1].signed_amount)
        line(k) ==
            [year |-> k \div 100, month |-> k % 100,
             Revenue |-> first(k, "Revenue"), COGS |-> first(k, "COGS"),
             OPEX |-> first(k, "OPEX"),
             Gross_Profit |-> first(k, "Revenue") + first(k, "COGS"),
             EBIT |-> first(k, "Revenue") + first(k, "COGS") + first(k, "OPEX")]
    IN  [i \in DOMAIN keys |-> line(keys[i])]

monthly_pnl(df) ==
    LET keyed == SelectSeq(df.rows, HasKeys)
        keys  == SortedSeq({PeriodKey(keyed[i]) : i \in DOMAIN keyed})
        cell(k, g) ==
            GroupSum(SelectSeq(keyed, LAMBDA r : PeriodKey(r) = k), g)
        line(k) ==
            [year |-> k \div 100, month |-> k % 100,
             Revenue |-> cell(k, "Revenue"), COGS |-> cell(k, "COGS"),
             OPEX |-> cell(k, "OPEX"),
             Gross_Profit |-> cell(k, "Revenue") + cell(k, "COGS"),
             EBIT |-> cell(k, "Revenue") + cell(k, "COGS") + cell(k, "OPEX")]
    IN  [i \in DOMAIN keys |-> line(keys[i])]

-----------------------------------------------------------------------------
(* app.py: what every page computes first                                  *)

\* the "All" entry of a year selectbox
All == 0

\* sorted(df["year"].dropna().unique())
YearsOf(rows) == SortedSeq({rows[i].year : i \in DOMAIN rows} \ {NaN})

\* line 201
GlobalSlice(tx, year) ==
    IF year = All THEN tx
    ELSE Table(tx.cols, SelectSeq(tx.rows, LAMBDA r : r.year = year))

\* (n / d * 100) if d else 0: a percentage kept as the fraction n/d
ZeroPct == [num |-> 0, den |-> 1]

\* a ratio without the guard on its denominator
pct_unguarded(n, d) == [num |-> n, den |-> d]

pct(n, d) == IF d # 0 THEN [num |-> n, den |-> d] ELSE ZeroPct

\* a page that raised; the script run ends there
Failed(in, what) == [page |-> in.page, in |-> in, err |-> what]

\* an assignment that puts the month number in both columns
overview_period_cols_monthonly(df) ==
    IF "date" \in df.cols
    THEN Table(df.cols \cup {"year", "month"},
               MapRows(df.rows,
                       LAMBDA r : [r EXCEPT !.year = r.date.m, !.month = r.date.m]))
    ELSE df

\* lines 212-214: DF["year"], DF["month"] assigned from DF["date"]
overview_period_cols(df) ==
    IF "date" \in df.cols
    THEN Table(df.cols \cup {"year", "month"},
               MapRows(df.rows,
                       LAMBDA r : [r EXCEPT !.year = r.date.y, !.month = r.date.m]))
    ELSE df

BudgetSum(rows) == SumSeq([i \in DOMAIN rows |-> rows[i].budget_amount])

\* groupby sorts the accounts; a missing account comes last
AccountOrder ==
    <<"Consulting", "Interest", "Materials", "P1", "P2", "P3", "P4", "P5", "P6", "Rent", "Sales", Null>>

\* sort_values("signed_amount", ascending=False)
RECURSIVE SortDescending(_)
SortDescending(lines) ==
    IF lines = <<>> THEN <<>>
    ELSE LET top == CHOOSE i \in DOMAIN lines :
                        /\ \A j \in DOMAIN lines : lines[j].amount <= lines[i].amount
                        /\ \A j \in 1 .. (i - 1) : lines[j].amount < lines[i].amount
         IN  <<lines[top]>>
             \o SortDescending(SubSeq(lines, 1, top - 1)
                               \o SubSeq(lines, top + 1, Len(lines)))

\* groupby("ACCOUNT")["signed_amount"].sum(), sorted, largest first
by_account(rows, dropna) ==
    LET accts == SelectSeq(AccountOrder,
                     LAMBDA a : /\ \E i \in DOMAIN rows : rows[i].ACCOUNT = a
                                /\ (a # Null \/ ~dropna))
        line(a) == [account |-> IF a = Null THEN "Unknown" ELSE a,
                    amount  |-> SumSigned(SelectSeq(rows, LAMBDA r : r.ACCOUNT = a))]
    IN  SortDescending([i \in DOMAIN accts |-> line(accts[i])])

RECURSIVE SumLines(_)
SumLines(lines) ==
    IF lines = <<>> THEN 0 ELSE Head(lines).amount + SumLines(Tail(lines))

\* most lines of a leaderboard that count towards the concentration
TopN == 5

\* lines 362-365 and 598-599: the share of the first five lines of a
\* leaderboard in its total, as the fraction num/den; `sum() or 1` makes the
\* denominator 1 when the total is 0
top5_share(lines) ==
    LET total == IF SumLines(lines) # 0 THEN SumLines(lines) ELSE 1
    IN  [num |-> SumLines(SubSeq(lines, 1, IF Len(lines) < TopN THEN Len(lines) ELSE TopN)),
         den |-> total]

\* no leaderboard is drawn: the table has no customer / project column
NoShare == [num |-> 0, den |-> 0]

\* lines 207-249: the Overview page
overview_view(tx, bd, in) ==
    IF "year" \notin tx.cols THEN Failed(in, "KeyError")
    ELSE IF ~(monthly_pnl_needs \subseteq tx.cols) THEN Failed(in, "KeyError")
    ELSE IF ~empty(bd) /\ ~({"account_group", "budget_amount"} \subseteq bd.cols)
    THEN Failed(in, "KeyError")
    ELSE
    LET DF == overview_period_cols(GlobalSlice(tx, in.year))
        k  == kpis(DF)
        total_revenue == k.Revenue
        cogs_val == GroupSum(DF.rows, "COGS")
        opex_val == GroupSum(DF.rows, "OPEX")
        actual_cogs_spend == Abs(GroupSum(DF.rows, "COGS"))
        total_budget_cogs ==
            IF ~empty(bd)
            THEN BudgetSum(SelectSeq(bd.rows, LAMBDA b : b.account_group = "COGS"))
            ELSE 0
        total_budget == IF ~empty(bd) THEN BudgetSum(bd.rows) ELSE 0
        rev_df == SelectSeq(DF.rows, LAMBDA r : r.account_group = "Revenue")
        rev_by_cust == by_account(rev_df, TRUE)
    IN  [page |-> "Overview", in |-> in, err |-> "",
         rev_by_cust |-> IF "ACCOUNT" \in tx.cols THEN rev_by_cust ELSE <<>>,
         top5_share |-> IF "ACCOUNT" \in tx.cols /\ rev_by_cust # <<>>
                        THEN top5_share(rev_by_cust) ELSE NoShare,
         MN |-> monthly_pnl(GlobalSlice(tx, in.year)),
         k |-> k, cogs_val |-> cogs_val, opex_val |-> opex_val,
         total_budget_cogs |-> total_budget_cogs,
         budget_util_pct |-> pct(actual_cogs_spend, total_budget_cogs),
         gp_margin |-> pct(k.Gross_Profit, total_revenue),
         np_margin |-> pct(k.EBIT, total_revenue),
         cogs_ratio |-> pct(cogs_val, total_revenue),
         opex_ratio |-> pct(opex_val, total_revenue),
         total_budget |-> total_budget,
         budget_util |-> IF ~empty(bd)
                         THEN pct(Abs(SumSigned(DF.rows)), total_budget)
                         ELSE ZeroPct]

\* the months of a year
Months == 1 .. 12

\* an annual budget taken whole, whatever the months
spread_budget_whole(ann, month_sel) == 12 * ann

\* lines 539-545: (ann / 12.0) * months_in_slice, as a number of twelfths
spread_budget(ann, month_sel) ==
    LET months_in_slice == IF month_sel # {} THEN Cardinality(month_sel) ELSE 12
    IN  ann * months_in_slice

\* lines 451-545: the Revenue page down to the KPI cards
revenue_view(tx, bd, in) ==
    IF ~(monthly_pnl_needs \subseteq tx.cols) THEN Failed(in, "KeyError")
    ELSE IF ~empty(bd) /\ ~({"account_group", "year", "budget_amount"} \subseteq bd.cols)
    THEN Failed(in, "KeyError")
    ELSE
    LET year_rev == in.year_rev
        month_sel == in.month_sel
        rev_all == SelectSeq(tx.rows, LAMBDA r : r.account_group = "Revenue")
        in_months(r) == month_sel = {} \/ r.month \in month_sel
        R == SelectSeq(rev_all,
                       LAMBDA r : (year_rev = All \/ r.year = year_rev) /\ in_months(r))
        total_rev == SumSigned(R)
        prev == SelectSeq(rev_all, LAMBDA r : r.year = year_rev - 1 /\ in_months(r))
        prev_sum == IF year_rev # All THEN SumSigned(prev) ELSE 0
        has_month == /\ "month" \in bd.cols
                     /\ \E i \in DOMAIN bd.rows : bd.rows[i].month # NaN
        b_rev == SelectSeq(bd.rows,
                           LAMBDA b : /\ b.account_group = "Revenue"
                                      /\ (year_rev = All \/ b.year = year_rev))
        \* the budget as a number of twelfths
        budget12 ==
            IF empty(bd) THEN 0
            ELSE IF has_month
            THEN 12 * BudgetSum(SelectSeq(b_rev,
                                   LAMBDA b : month_sel = {} \/ b.month \in month_sel))
            ELSE spread_budget(BudgetSum(SelectSeq(b_rev, LAMBDA b : b.year # NaN)),
                               month_sel)
        by_proj == by_account(R, TRUE)
    IN  [page |-> "Revenue", in |-> in, err |-> "",
         by_proj |-> IF "ACCOUNT" \in tx.cols THEN by_proj ELSE <<>>,
         top5_share |-> IF "ACCOUNT" \in tx.cols THEN top5_share(by_proj) ELSE NoShare,
         total_rev |-> total_rev, prev_sum |-> prev_sum,
         yoy_pct |-> IF year_rev # All THEN pct(total_rev - prev_sum, prev_sum)
                     ELSE ZeroPct,
         budget_val |-> [num |-> budget12, den |-> 12],
         variance_val |-> [num |-> 12 * total_rev - budget12, den |-> 12],
         variance_pct |-> pct(12 * total_rev - budget12, budget12)]

qmap(q) ==
    CASE q = "Q1" -> {1, 2, 3}
      [] q = "Q2" -> {4, 5, 6}
      [] q = "Q3" -> {7, 8, 9}
      [] q = "Q4" -> {10, 11, 12}

\* no quarter / no month chosen (the Python None of lines 900-908)
NoQuarter == ""

NoMonth == 0

\* lines 911-918
slice_period(df, year, granularity, q, m) ==
    LET of_year == SelectSeq(df.rows, LAMBDA r : r.year = year)
        of_q == IF granularity = "Quarter" /\ q # NoQuarter
                THEN SelectSeq(of_year, LAMBDA r : r.month \in qmap(q))
                ELSE of_year
        of_m == IF granularity = "Month" /\ m # NoMonth
                THEN SelectSeq(of_q, LAMBDA r : r.month = m)
                ELSE of_q
    IN  Table(df.cols, of_m)

\* lines 927-938
section_rows(df, group_name) ==
    LET part == SelectSeq(df.rows, LAMBDA r : r.account_group = group_name)
        rows == by_account(part, FALSE)
    IN  IF part = <<>> THEN [rows |-> <<>>, subtotal |-> 0]
        ELSE [rows |-> rows, subtotal |-> SumLines(rows)]

\* .str.contains("other income", case=False, na=False)
contains_other_income(cell) ==
    cell # Null /\ Contains(Lower(Chars(cell)), Chars("other income"))

\* lines 946-949: a column read with every cell blank is a float column, and
\* its .str accessor raises AttributeError
str_accessor_raises(tx) ==
    LET blank(c) == tx.rows # <<>> /\ \A i \in DOMAIN tx.rows : tx.rows[i][c] = Null
    IN  IF "Short_CLASS" \in tx.cols THEN blank("Short_CLASS")
        ELSE IF "CLASS" \in tx.cols THEN blank("CLASS")
        ELSE FALSE

\* lines 946-951
other_income_rows(S) ==
    IF "Short_CLASS" \in S.cols
    THEN SelectSeq(S.rows, LAMBDA r : contains_other_income(r.Short_CLASS))
    ELSE IF "CLASS" \in S.cols
    THEN SelectSeq(S.rows, LAMBDA r : contains_other_income(r.CLASS))
    ELSE SelectSeq(S.rows, LAMBDA r : r.account_group = "Other Income")

\* line 964
gross_profit_of(rev_total, cogs_total) == rev_total - cogs_total

\* line 965
net_profit_of(gross_profit, other_total, opex_total) ==
    gross_profit + other_total - opex_total

\* lines 883-965: the statement of profit and loss (the "Table" page)
statement_view(tx, in) ==
    IF "year" \notin tx.cols THEN Failed(in, "KeyError")
    ELSE IF ~(monthly_pnl_needs \subseteq tx.cols) THEN Failed(in, "KeyError")
    ELSE
    LET DF == GlobalSlice(tx, in.year)
        S  == slice_period(DF, in.sel_year, in.gran, in.sel_q, in.sel_month)
        other_inc == other_income_rows(S)
    IN  IF YearsOf(DF.rows) = <<>> THEN Failed(in, "NoYear")
        ELSE IF "ACCOUNT" \notin S.cols
                /\ (other_inc # <<>>
                    \/ \E i \in DOMAIN S.rows : S.rows[i].account_group \in Groups)
        THEN Failed(in, "KeyError")
        ELSE IF str_accessor_raises(tx) THEN Failed(in, "AttributeError")
        ELSE
        LET rev  == section_rows(S, "Revenue")
            cogs == section_rows(S, "COGS")
            opex == section_rows(S, "OPEX")
            other_rows == by_account(other_inc, TRUE)
            other_total == SumLines(other_rows)
            gross_profit == gross_profit_of(rev.subtotal, cogs.subtotal)
        IN  [page |-> "Table", in |-> in, err |-> "", S |-> S,
             rev_rows |-> rev.rows, rev_total |-> rev.subtotal,
             cogs_rows |-> cogs.rows, cogs_total |-> cogs.subtotal,
             opex_rows |-> opex.rows, opex_total |-> opex.subtotal,
             other_rows |-> other_rows, other_total |-> other_total,
             gross_profit |-> gross_profit,
             net_profit |-> net_profit_of(gross_profit, other_total, opex.subtotal)]

-----------------------------------------------------------------------------
(* app.py: one run of the script                                           *)

\* EXP["abs_amount"].sum() of one group (lines 722-727)
AbsSum(rows, g) ==
    SumSeq([i \in DOMAIN rows |->
              IF rows[i].account_group = g /\ IsNum(rows[i].signed_amount)
              THEN Abs(rows[i].signed_amount) ELSE 0])

\* lines 700-729: the Expenses page down to its two total cards
expenses_view(tx, in) ==
    IF "year" \notin tx.cols THEN Failed(in, "KeyError")
    ELSE IF ~(monthly_pnl_needs \subseteq tx.cols) THEN Failed(in, "KeyError")
    ELSE
    LET DF == GlobalSlice(tx, in.year)
    IN  [page |-> "Expenses", in |-> in, err |-> "",
         total_opex |-> AbsSum(DF.rows, "OPEX"),
         total_cogs |-> AbsSum(DF.rows, "COGS")]

\* the widgets of a run: the page, the global year, the Revenue page's year
\* and months, the statement's view, year, quarter and month
Widgets(page) ==
    [page |-> page, year |-> All, year_rev |-> All, month_sel |-> Months,
     gran |-> "Year", sel_year |-> All, sel_q |-> NoQuarter, sel_month |-> NoMonth]

Last(s) == s[Len(s)]

\* a selectbox whose stored choice is no longer offered falls back to its
\* default: "All" (index 0) for the year filters, the latest year for pl_year
Offered(in, tx) ==
    IF "year" \notin tx.cols THEN in
    ELSE
    LET year == IF in.page # "Revenue" /\ in.year \in Range(YearsOf(tx.rows))
                THEN in.year ELSE All
        years_all == YearsOf(GlobalSlice(tx, year).rows)
        years_rev == YearsOf(SelectSeq(tx.rows, LAMBDA r : r.account_group = "Revenue"))
    IN  [in EXCEPT
            !.year = year,
            !.year_rev = IF in.page = "Revenue" /\ @ \in Range(years_rev) THEN @ ELSE All,
            !.sel_year = IF in.page # "Table" \/ years_all = <<>> THEN All
                         ELSE IF @ \in Range(years_all) THEN @ ELSE Last(years_all)]

\* what the page shows
page_view(in, tx, bd) ==
    CASE in.page = "Overview" -> overview_view(tx, bd, in)
      [] in.page = "Revenue"  -> revenue_view(tx, bd, in)
      [] in.page = "Expenses" -> expenses_view(tx, in)
      [] in.page = "Table"    -> statement_view(tx, in)

\* the script got past lines 196 and 202 to the page's own code
reaches_page(tx) == "year" \in tx.cols /\ monthly_pnl_needs \subseteq tx.cols

\* lines 201 and 212-214: on the Overview page with year "All", DF is the
\* working table itself, and the assignment writes into the session's table;
\* lines 704-706 and 886-888: the Expenses and statement pages write the
\* same columns when the table has a date and no year
tx_user_after(in, txu) ==
    IF ~txu.none /\ in.year = All /\ reaches_page(txu)
    THEN CASE in.page = "Overview" -> overview_period_cols(txu)
           [] in.page \in {"Expenses", "Table"} ->
                IF "year" \notin txu.cols THEN overview_period_cols(txu) ELSE txu
           [] OTHER -> txu
    ELSE txu

\* lines 216-218: bd["year"], bd["month"] assigned from bd["date"]
budget_period_cols(b) ==
    Table(b.cols \cup {"year", "month"},
          MapRows(b.rows,
                  LAMBDA r : [r EXCEPT !.year = to_datetime(r.date).y,
                                       !.month = to_datetime(r.date).m]))

\* lines 216-218 on the Overview page: bd is the session's budget table
bd_user_after(in, tx, bdu) ==
    IF /\ ~bdu.none
       /\ in.page = "Overview" /\ reaches_page(tx)
       /\ ~empty(bdu) /\ "date" \in bdu.cols
    THEN budget_period_cols(bdu)
    ELSE bdu
-----------------------------------------------------------------------------
(* Inputs: the files on disk and the rows handed to the classifier         *)

\* most rows of a transaction file on disk
MaxSrcRows == 2

Sides ==
    {"revenue", "Revenue", " REVENUE ", "expenses", "Expenses ", "EXPENSES",
     "assets", "expense", "", Null}

Shorts ==
    {"COS", "cos", " Cos ", "G&A", "g&a", " ga", "GNA", "OI", "COST",
     "Other Income", "", Null}

Fulls ==
    {"Cost of Sales - Materials", " COST OF SALES", "Total cost of sales",
     "General & Administrative", "Office general and administrative",
     "Assets", "Other Income", "", Null}

ClassifierRows == [side : Sides, Short_CLASS : Shorts, CLASS : Fulls]

\* (REVENUE/EXPENSES, Short_CLASS, CLASS) of the rows of a file
FileClasses ==
    {<<"Revenue", Null, Null>>,
     <<"expenses", "COS", "General & Administrative">>,
     <<"Expenses ", Null, "Cost of Sales - Materials">>,
     <<"assets", "COS", Null>>}

\* the AMOUNT cells: numbers and a text cell; a blank cell is NaN
FileAmounts == {0, 100, -40, StrCell}

RawRow(d, a, c, acct) ==
    [BlankRow EXCEPT !.Date = d, !.AMOUNT = a, !.side = c[1],
                     !.Short_CLASS = c[2], !.CLASS = c[3], !.ACCOUNT = acct]

\* the rows of a file: every class with every amount, rows with a blank
\* amount, rows whose date cannot be parsed
FileRows ==
    {RawRow("2024-01-15", a, c, "Sales") : a \in FileAmounts, c \in FileClasses}
    \cup {RawRow("2024-01-15", NaN, c, "Sales") :
              c \in {<<"Revenue", Null, Null>>, <<"assets", "COS", Null>>}}
    \cup {RawRow("not a date", 100, <<"Revenue", Null, Null>>, "Sales"),
          RawRow("not a date", -40, <<"expenses", "COS", Null>>, "Materials")}

SeqsUpTo(S, n) == UNION {[1 .. k -> S] : k \in 1 .. n}

\* the header rows a transaction file may have
FileHeaders ==
    {{"Date", "AMOUNT", "REVENUE/EXPENSES", "Short_CLASS", "CLASS", "ACCOUNT"},
     {" Date", "AMOUNT ", "REVENUE/EXPENSES", "ACCOUNT"},
     {"AMOUNT", "REVENUE/EXPENSES", "Short_CLASS", "CLASS", "ACCOUNT"},
     {"Date", "REVENUE/EXPENSES", "Short_CLASS", "CLASS", "ACCOUNT"},
     {"Date", "AMOUNT", "Short_CLASS", "CLASS", "ACCOUNT"}}

\* read_excel of a file with these headers: a cell exists only under a header
ReadFile(headers, rows) ==
    [cols |-> headers,
     rows |-> MapRows(rows, LAMBDA r : Project(r, _norm_cols(headers)))]

LoadSources ==
    {ReadFile(h, rs) : h \in FileHeaders, rs \in SeqsUpTo(FileRows, MaxSrcRows)}

BlankBudgetRow ==
    [DATE |-> Null, Date |-> Null, side |-> Null, Short_CLASS |-> Null,
     CLASS |-> Null, BUDGET |-> NaN, budget_amount |-> NaN, month |-> NaN]

BudgetRow(d, c, amt) ==
    [BlankBudgetRow EXCEPT !.DATE = d, !.side = c[1], !.Short_CLASS = c[2],
                           !.CLASS = c[3], !.BUDGET = amt]

NoFile == [exists |-> FALSE, cols |-> {}, rows |-> <<>>]

BudgetFile(cols, rows) == [exists |-> TRUE, cols |-> cols, rows |-> rows]

BudgetHeaders == {"DATE", "REVENUE/EXPENSES", "Short_CLASS", "CLASS", "BUDGET"}

\* the budget files load_all is run on: none; an annual budget of two
\* groups; a monthly budget with a month column, two months of one group and
\* a line of another side; a budget with a line whose date cannot be parsed
BudgetSources ==
    {NoFile,
     BudgetFile(BudgetHeaders,
                <<BudgetRow("2024-01-15", <<"Revenue", Null, Null>>, 1200),
                  BudgetRow("2024-04-30", <<"expenses", "COS", Null>>, 600)>>),
     BudgetFile(BudgetHeaders \cup {"month"},
                <<[BudgetRow("2024-01-15", <<"Revenue", Null, Null>>, 1200)
                      EXCEPT !.month = 1],
                  [BudgetRow("2024-04-30", <<"Revenue", Null, Null>>, 600)
                      EXCEPT !.month = 4],
                  [BudgetRow("2024-04-30", <<"assets", Null, Null>>, 50)
                      EXCEPT !.month = 4]>>),
     BudgetFile(BudgetHeaders,
                <<BudgetRow("2024-01-15", <<"Revenue", Null, Null>>, 1200),
                  BudgetRow("not a date", <<"Revenue", Null, Null>>, 300)>>)}

-----------------------------------------------------------------------------
(* Values of the variables a specification leaves alone                    *)

IdleRow == [side |-> "", Short_CLASS |-> "", CLASS |-> ""]

Pending == "pending"

IdleSrc == [cols |-> {}, rows |-> <<>>]

NotLoaded == [status |-> "none", tx |-> None, bd |-> None]

NoView == [page |-> "none", in |-> [page |-> "none"], err |-> ""]

-----------------------------------------------------------------------------
(* SpecClassify: _infer_group applied to one row                           *)

InitClassify ==
    /\ crow \in ClassifierRows
    /\ cgroup = Pending
    /\ src = IdleSrc
    /\ bsrc = NoFile
    /\ loaded = NotLoaded
    /\ tx_user = None
    /\ bd_user = None
    /\ view = NoView

Classify ==
    /\ cgroup = Pending
    /\ cgroup' = _infer_group(crow)
    /\ UNCHANGED <<crow, src, bsrc, loaded, tx_user, bd_user, view>>

NextClassify == Classify

SpecClassify == InitClassify /\ [][NextClassify]_vars

-----------------------------------------------------------------------------
(* SpecLoad: load_all applied to the files on disk                         *)

InitLoad ==
    /\ crow = IdleRow
    /\ cgroup = Pending
    /\ src \in LoadSources
    /\ bsrc \in BudgetSources
    /\ loaded = NotLoaded
    /\ tx_user = None
    /\ bd_user = None
    /\ view = NoView

Load ==
    /\ loaded.status = "none"
    /\ loaded' = load_all(src, bsrc)
    /\ UNCHANGED <<crow, cgroup, src, bsrc, tx_user, bd_user, view>>

NextLoad == Load

SpecLoad == InitLoad /\ [][NextLoad]_vars

-----------------------------------------------------------------------------
(* Inputs of the pages and of the upload panel                             *)

\* most rows of the transaction file when the pages are run on it
MaxPageRows == 3

\* most rows of the transaction file in a session with uploads
MaxSessionRows == 2

\* (REVENUE/EXPENSES, Short_CLASS, CLASS, ACCOUNT, AMOUNT) of the rows
Sales == <<"Revenue", Null, Null, "Sales", 1000>>

Materials == <<"expenses", "COS", "General & Administrative", "Materials", 400>>

Rent == <<"Expenses ", "g&a", "Cost of Sales - Materials", "Rent", 200>>

\* a balance-sheet line: load_all drops it
Bank == <<"assets", Null, Null, "Bank", 50>>

\* the rows of the file: sales in three months of two years, materials in
\* two months, rent in one, and a row whose date cannot be parsed
PageRows ==
    {RawRow(d, Sales[5], Sales, Sales[4]) :
        d \in {"2023-12-05", "2024-01-15", "2024-04-30", "not a date"}}
    \cup {RawRow(d, Materials[5], Materials, Materials[4]) :
              d \in {"2024-01-15", "2024-04-30"}}
    \cup {RawRow("2024-01-15", Rent[5], Rent, Rent[4])}
    \cup {RawRow("2024-01-15", Bank[5], Bank, Bank[4])}

AllHeaders == {"Date", "AMOUNT", "REVENUE/EXPENSES", "Short_CLASS", "CLASS", "ACCOUNT"}

PageSources ==
    {ReadFile(AllHeaders, rs) : rs \in SeqsUpTo(PageRows, MaxPageRows)}

PageBudgets ==
    {NoFile,
     BudgetFile(BudgetHeaders,
                <<BudgetRow("2024-01-15", <<"Revenue", Null, Null>>, 1200),
                  BudgetRow("2024-04-30", <<"expenses", "COS", Null>>, 600)>>),
     BudgetFile(BudgetHeaders,
                <<BudgetRow("2024-01-15", <<"Revenue", Null, Null>>, 0),
                  BudgetRow("2024-01-15", <<"expenses", "COS", Null>>, 0)>>)}

SessionRows ==
    {RawRow("2024-01-15", 100, <<"Revenue", Null, Null>>, "Sales"),
     RawRow("2023-12-05", 40, <<"expenses", "COS", Null>>, "Materials")}

SessionSources ==
    {ReadFile(AllHeaders, rs) : rs \in SeqsUpTo(SessionRows, MaxSessionRows)}

SessionBudgets ==
    {NoFile,
     BudgetFile(BudgetHeaders,
                <<BudgetRow("2024-01-15", <<"Revenue", Null, Null>>, 1200),
                  BudgetRow("2024-04-30", <<"expenses", "COS", Null>>, 600)>>)}

\* an uploaded file as _read_any_table returns it (or fails to)
Upload(cols, rows) ==
    [chosen |-> TRUE, readable |-> TRUE, cols |-> cols,
     rows |-> MapRows(rows, LAMBDA r : Project(r, cols))]

Unreadable == [chosen |-> TRUE, readable |-> FALSE, cols |-> {}, rows |-> <<>>]

\* a row of an uploaded transaction file: the date (under "date" or "Date"),
\* AMOUNT, account_group, signed_amount, year and month as the file gives them
UploadRow(d, amt, grp, signed, y, m) ==
    [BlankRow EXCEPT !.date = d, !.Date = d, !.AMOUNT = amt, !.account_group = grp,
                     !.signed_amount = signed, !.year = y, !.month = m,
                     !.ACCOUNT = "Consulting", !.side = "Revenue",
                     !.Short_CLASS = Null, !.CLASS = Null]

\* six projects whose revenue lines cancel: a refund as large as the sales
Projects == <<"P1", "P2", "P3", "P4", "P5", "P6">>

CancellingAmounts == <<10, 10, 10, 10, 10, -50>>

\* the uploaded transaction files
TxUploadFiles ==
    <<Upload({"date", "AMOUNT", "ACCOUNT", "account_group", "signed_amount"},
             <<UploadRow("2024-09-09", 70, "Revenue", 70, NaN, NaN)>>),
      Upload({"date", "AMOUNT", "ACCOUNT", "account_group", "EXTRA"},
             <<UploadRow("2024-09-09", -70, "Revenue", NaN, NaN, NaN),
               UploadRow("2024-09-10", 30, "OPEX", NaN, NaN, NaN)>>),
      Upload({"date", "AMOUNT", "ACCOUNT", "account_group", "EXTRA"},
             <<UploadRow("2024-04-30", StrCell, "OPEX", NaN, NaN, NaN)>>),
      Upload({"date", "AMOUNT", "ACCOUNT"},
             <<UploadRow("not a date", 15, Null, NaN, NaN, NaN)>>),
      Upload({"Date", "AMOUNT", "REVENUE/EXPENSES", "Short_CLASS", "CLASS", "ACCOUNT"},
             <<UploadRow("2024-09-09", 70, Null, NaN, NaN, NaN)>>),
      Upload({"year", "month", "ACCOUNT", "account_group", "signed_amount"},
             <<UploadRow(Null, NaN, "COGS", 35, 2024, NaN)>>),
      Upload({"year", "month", "ACCOUNT", "account_group", "signed_amount"},
             [i \in 1 .. 6 |->
                 [UploadRow(Null, NaN, "Revenue", CancellingAmounts[i], 2024, 1)
                     EXCEPT !.ACCOUNT = Projects[i]]])>>

TxUploads ==
    {NoUpload, Unreadable}
    \cup {TxUploadFiles[i] : i \in DOMAIN TxUploadFiles}

BudgetUploadLine(d, y, grp, amt) ==
    [BlankBudgetLine EXCEPT !.date = d, !.year = y, !.account_group = grp,
                            !.budget_amount = amt]

BudgetUpload(cols, rows) ==
    [chosen |-> TRUE, readable |-> TRUE, cols |-> cols, rows |-> rows]

BudgetUploads ==
    {NoUpload, Unreadable,
     BudgetUpload({"year", "account_group", "budget_amount"},
                  <<BudgetUploadLine(Null, 2024, "Revenue", 300)>>),
     BudgetUpload({"Date", "BUDGET"},
                  <<BudgetUploadLine("2024-01-15", NaN, Null, 500)>>)}

\* what the two file_uploaders hold when the button is pressed: one file
\* alone, or the first transactions file or a file that fails together with
\* a budget file
UploadChoices ==
    {<<t, NoUpload>> : t \in TxUploads}
    \cup {<<t, b>> : t \in {NoUpload, TxUploadFiles[1]}, b \in BudgetUploads}
    \cup {<<t, b>> : t \in {Unreadable, TxUploadFiles[3]},
                     b \in {u \in BudgetUploads : u.chosen /\ u.readable}}

Modes == {"Append", "Replace"}

YearInputs == {All, 2023, 2024}

MonthSelections == {Months, {1}, {4, 12}, {}}

MonthInputs == {1, 4, 9, 12}

OverviewInputs == {[Widgets("Overview") EXCEPT !.year = y] : y \in YearInputs}

RevenueInputs ==
    {[Widgets("Revenue") EXCEPT !.year_rev = y, !.month_sel = ms] :
        y \in YearInputs, ms \in MonthSelections}

ExpensesInputs == {[Widgets("Expenses") EXCEPT !.year = y] : y \in YearInputs}

StatementInputs ==
    {[Widgets("Table") EXCEPT !.year = y, !.sel_year = sy, !.gran = g[1],
                              !.sel_q = g[2], !.sel_month = g[3]] :
        y \in YearInputs, sy \in YearInputs,
        g \in {<<"Year", NoQuarter, NoMonth>>}
              \cup {<<"Quarter", q, NoMonth>> : q \in {"Q1", "Q2", "Q3", "Q4"}}
              \cup {<<"Month", NoQuarter, m>> : m \in MonthInputs}}

\* the widget settings tried in a session with uploads
SessionOverviewInputs == {Widgets("Overview")}

SessionRevenueInputs == {[Widgets("Revenue") EXCEPT !.year_rev = 2024]}

SessionExpensesInputs == {Widgets("Expenses")}

SessionStatementInputs ==
    {in \in StatementInputs : in.year = All /\ in.gran # "Month" /\ in.sel_year # 2023}

-----------------------------------------------------------------------------
(* Spec: a session of the dashboard.  Every action is one run of the       *)
(* script, top to bottom: load_all, the upload panel, the working tables,  *)
(* the page.  A run whose load_all raises shows the error and stops        *)
(* (lines 35-37): nothing of the session changes.                          *)

Stopped(ld) == [page |-> "stopped", in |-> Widgets("stopped"), err |-> ld.status]

\* the files are on disk and the script has not run yet
InitFiles(sources, budgets) ==
    /\ crow = IdleRow
    /\ cgroup = Pending
    /\ src \in sources
    /\ bsrc \in budgets
    /\ loaded = NotLoaded
    /\ tx_user = None
    /\ bd_user = None
    /\ view = NoView

Init == InitFiles(SessionSources, SessionBudgets)

\* a run that shows the page of one of the widget settings `inputs`
Show(inputs) ==
    /\ loaded' = load_all(src, bsrc)
    /\ IF loaded'.status # "ok"
       THEN view' = Stopped(loaded') /\ tx_user' = tx_user /\ bd_user' = bd_user
       ELSE \E tx \in {working_tx(loaded', tx_user)},
               bd \in {working_bd(loaded', bd_user)} :
                \E in \in inputs :
                    /\ in = Offered(in, tx)
                    /\ view' = page_view(in, tx, bd)
                    /\ tx_user' = tx_user_after(in, tx_user)
                    /\ bd_user' = bd_user_after(in, tx, bd_user)
    /\ UNCHANGED <<crow, cgroup, src, bsrc>>

ShowOverview == Show(SessionOverviewInputs)

ShowRevenue == Show(SessionRevenueInputs)

ShowExpenses == Show(SessionExpensesInputs)

ShowStatement == Show(SessionStatementInputs)

\* the run after "Apply uploads" is pressed with the files and the mode chosen
\* in the sidebar, ld being what load_all returned at the top of the run; the
\* button is there once a run has drawn the sidebar
ApplyWith(ld, up_tx, up_bd, mode) ==
    /\ view.page \notin {"none", "stopped"}
    /\ loaded' = ld
    /\ ld.status = "ok"
    /\ \E new \in {apply_uploads(up_tx, up_bd, mode, ld.tx, ld.bd, tx_user, bd_user)} :
            \E tx \in {working_tx(ld, new[1])},
               bd \in {working_bd(ld, new[2])} :
               \E in \in {Offered(view.in, tx)} :
                /\ view' = page_view(in, tx, bd)
                /\ tx_user' = tx_user_after(in, new[1])
                /\ bd_user' = bd_user_after(in, tx, new[2])
    /\ UNCHANGED <<crow, cgroup, src, bsrc>>

ApplyUploads ==
    \E ld \in {load_all(src, bsrc)} :
        \E up \in UploadChoices, mode \in Modes :
            ApplyWith(ld, up[1], up[2], mode)

Next == ApplyUploads \/ ShowOverview \/ ShowRevenue \/ ShowExpenses \/ ShowStatement

Spec == Init /\ [][Next]_vars

-----------------------------------------------------------------------------
(* SpecPages: the first run of the script on the files on disk, for every  *)
(* page and every setting of its widgets                                   *)

InitPages == InitFiles(PageSources, PageBudgets)

OverviewPage == view.page = "none" /\ Show(OverviewInputs)

RevenuePage == view.page = "none" /\ Show(RevenueInputs)

ExpensesPage == view.page = "none" /\ Show(ExpensesInputs)

StatementPage == view.page = "none" /\ Show(StatementInputs)

NextPages == OverviewPage \/ RevenuePage \/ ExpensesPage \/ StatementPage

SpecPages == InitPages /\ [][NextPages]_vars


-----------------------------------------------------------------------------
(* SpecStatement: the statement of profit and loss on files whose sections *)
(* have several accounts and an Other Income line                          *)

\* most rows of the transaction file when the statement is run on it
MaxStatementRows == 3

\* interest received, booked as revenue under the short class Other Income
Interest == <<"Revenue", "Other Income", Null, "Interest", 30>>

\* a consultant's fee, an administrative expense
Fee == <<"expenses", "GA", Null, "Consulting", 150>>

\* the rows of the file, all of January 2024: sales, interest with and
\* without an account, and expenses of three accounts
StatementRows ==
    {RawRow("2024-01-15", c[5], c, c[4]) : c \in {Sales, Interest, Fee, Materials, Rent}}
    \cup {RawRow("2024-01-15", Interest[5], Interest, Null)}

StatementSources ==
    {ReadFile(AllHeaders, rs) : rs \in SeqsUpTo(StatementRows, MaxStatementRows)}

InitStatement == InitFiles(StatementSources, {NoFile})

NextStatement == StatementPage

SpecStatement == InitStatement /\ [][NextStatement]_vars
-----------------------------------------------------------------------------
(* Properties of the classifier (SpecClassify)                              *)

\* the group the abbreviation alone gives, and the group the class text
\* alone gives
ByShort(short) ==
    IF short = Chars("COS") THEN "COGS"
    ELSE IF short \in {Chars("G&A"), Chars("GA"), Chars("GNA")} THEN "OPEX"
    ELSE Null

ByClass(full) ==
    IF StartsWith(full, Chars("cost of sales")) THEN "COGS"
    ELSE IF \/ Contains(full, Chars("general & administrative"))
            \/ Contains(full, Chars("general and administrative"))
         THEN "OPEX"
    ELSE Null

DecisionTable(side, short, full) ==
    IF side = Chars("revenue") THEN "Revenue"
    ELSE IF side # Chars("expenses") THEN Null
    ELSE IF ByShort(short) # Null THEN ByShort(short)
    ELSE ByClass(full)

Classified == cgroup # Pending

\* C1 (as the code has it): _infer_group trims all three cells, lowercases
\* the side and the class text and uppercases the abbreviation, then returns
\* Revenue for side "revenue"; for side "expenses" COGS for abbreviation COS,
\* else OPEX for G&A/GA/GNA, else COGS for a class text starting with "cost
\* of sales", else OPEX for one containing "general & administrative" or
\* "general and administrative", else None; None for any other side.  When
\* the abbreviation and the class text name different groups the
\* abbreviation wins.
C1_DecisionTable ==
    Classified =>
        LET side  == Lower(Strip(Str(crow.side)))
            short == Upper(Strip(Str(crow.Short_CLASS)))
            full  == Lower(Strip(Str(crow.CLASS)))
        IN  /\ cgroup = DecisionTable(side, short, full)
            /\ (side = Chars("expenses") /\ ByShort(short) # Null)
                    => cgroup = ByShort(short)

\* C1 witness: an expenses row whose abbreviation, once trimmed and
\* uppercased, is COS while its class text says general & administrative
C1_Witness ==
    /\ Classified
    /\ crow.side = "Expenses "
    /\ crow.Short_CLASS = " Cos "
    /\ crow.CLASS = "General & Administrative"
    /\ cgroup = "COGS"

\* C1 as stated: only the side is trimmed; the abbreviation is uppercased
\* and the class text lowercased as they stand
C1_AsStated ==
    Classified =>
        LET side  == Lower(Strip(Str(crow.side)))
            short == Upper(Str(crow.Short_CLASS))
            full  == Lower(Str(crow.CLASS))
        IN  cgroup = DecisionTable(side, short, full)

-----------------------------------------------------------------------------
(* Properties of load_all (SpecLoad)                                        *)

Sign(x) == IF x > 0 THEN 1 ELSE IF x < 0 THEN -1 ELSE 0

LoadReturned == loaded.status = "ok"

LoadDone == loaded.status # "none"

\* the group the decision table gives the cells of a transaction row
TableGroup(r) ==
    DecisionTable(Lower(Strip(Str(r.side))),
                  Upper(Strip(Str(r.Short_CLASS))),
                  Lower(Strip(Str(r.CLASS))))

\* the file has a header that, stripped, reads c
HasHeader(file, c) == \E h \in file.cols : Strip(Chars(h)) = Chars(c)

HasRequiredHeaders ==
    /\ HasHeader(src, "Date")
    /\ HasHeader(src, "AMOUNT")
    /\ HasHeader(src, "REVENUE/EXPENSES")

\* C2 (as the code has it): every row of the table load_all returns has the
\* group the decision table gives its cells, one of Revenue, COGS, OPEX; its
\* signed_amount is |AMOUNT| for Revenue and -|AMOUNT| for COGS and OPEX, so
\* its sign is +1 resp. -1 only when AMOUNT is not 0 and is 0 when AMOUNT is
\* 0; no row the table classifies as None is returned.
C2_SignedRows ==
    LoadReturned =>
        /\ Len(loaded.tx.rows) <= Len(src.rows)
        /\ \A i \in DOMAIN loaded.tx.rows :
            LET r == loaded.tx.rows[i]
            IN  /\ r.account_group \in {"Revenue", "COGS", "OPEX"}
                /\ r.account_group = TableGroup(r)
                /\ IsNum(r.AMOUNT) /\ IsNum(r.signed_amount)
                /\ Abs(r.signed_amount) = Abs(r.AMOUNT)
                /\ r.account_group = "Revenue" => r.signed_amount >= 0
                /\ r.account_group \in {"COGS", "OPEX"} => r.signed_amount <= 0
                /\ Sign(r.signed_amount) =
                       IF r.AMOUNT = 0 THEN 0
                       ELSE IF r.account_group = "Revenue" THEN 1 ELSE -1

\* C2 witness: a file with an expense row of negative AMOUNT, kept with a
\* negative signed_amount, and a row of another side, left out
C2_Witness ==
    /\ LoadReturned
    /\ \E i \in DOMAIN loaded.tx.rows :
        /\ loaded.tx.rows[i].account_group = "COGS"
        /\ loaded.tx.rows[i].AMOUNT = -40
        /\ loaded.tx.rows[i].signed_amount = -40
    /\ \E j \in DOMAIN src.rows : src.rows[j].side = "assets"
    /\ Len(loaded.tx.rows) = 1

\* C2 as stated: the sign of signed_amount is +1 on every Revenue row and -1
\* on every COGS or OPEX row
C2_AsStated ==
    LoadReturned =>
        \A i \in DOMAIN loaded.tx.rows :
            LET r == loaded.tx.rows[i]
            IN  /\ r.account_group \in {"Revenue", "COGS", "OPEX"}
                /\ Sign(r.signed_amount) =
                       IF r.account_group = "Revenue" THEN 1 ELSE -1
                /\ Abs(r.signed_amount) = Abs(r.AMOUNT)

\* C4: load_all raises ValueError exactly when the file has no Date, no
\* AMOUNT or no REVENUE/EXPENSES header (headers read without surrounding
\* blanks), and then returns neither table.
C4_SchemaError ==
    LoadDone =>
        /\ loaded.status = "ValueError" <=> ~HasRequiredHeaders
        /\ loaded.status = "ValueError" => loaded.tx = None /\ loaded.bd = None

\* C4 witness: a file of two rows without the REVENUE/EXPENSES column, and a
\* budget file that could have been loaded
C4_Witness ==
    /\ loaded.status = "ValueError"
    /\ HasHeader(src, "Date") /\ HasHeader(src, "AMOUNT")
    /\ ~HasHeader(src, "REVENUE/EXPENSES")
    /\ Len(src.rows) = 2
    /\ bsrc.exists
    /\ loaded.tx = None /\ loaded.bd = None

\* C5 as stated: with the three required columns present load_all returns,
\* whatever the cells of the rows are.
C5_NeverRaises ==
    (LoadDone /\ HasRequiredHeaders) => LoadReturned

\* C5, the rows that are absorbed: with the required columns present and no
\* text AMOUNT on a row that classifies, load_all returns, and the rows with
\* an unparseable date stay in the table without a year.
C5_AbsorbedAnomalies ==
    (LoadDone /\ HasRequiredHeaders
        /\ \A i \in DOMAIN src.rows :
              src.rows[i].AMOUNT = StrCell => TableGroup(src.rows[i]) = Null)
    => LoadReturned

-----------------------------------------------------------------------------
(* Properties of a session with uploads (Spec)                              *)

SessionRan == loaded.status = "ok"

\* the transaction table the pages of the last run worked on
WorkingTx == working_tx(loaded, tx_user)

WorkingBd == working_bd(loaded, bd_user)

\* C3 as stated: in every state of a session the working transaction table
\* has the account_group and signed_amount columns and each of its rows has
\* a group among Revenue, COGS, OPEX and a signed_amount that is not
\* negative for Revenue and not positive for COGS and OPEX.
C3_WorkingRowsCanonical ==
    SessionRan =>
        /\ {"account_group", "signed_amount"} \subseteq WorkingTx.cols
        /\ \A i \in DOMAIN WorkingTx.rows :
            LET r == WorkingTx.rows[i]
            IN  /\ r.account_group \in {"Revenue", "COGS", "OPEX"}
                /\ IsNum(r.signed_amount)
                /\ r.account_group = "Revenue" => r.signed_amount >= 0
                /\ r.account_group \in {"COGS", "OPEX"} => r.signed_amount <= 0

-----------------------------------------------------------------------------
(* Properties of the pages (SpecPages)                                      *)

\* the last run showed page p and did not raise
PageShown(p) == view.page = p /\ view.err = ""

\* the rows left by the global year filter of the last run
FilteredRows == GlobalSlice(WorkingTx, view.in.year).rows

RECURSIVE Total(_)
\* the sum of the signed amounts of rows, a missing amount counting as 0
Total(rows) ==
    IF rows = <<>> THEN 0
    ELSE (IF IsNum(Head(rows).signed_amount) THEN Head(rows).signed_amount ELSE 0)
         + Total(Tail(rows))

OfGroup(rows, g) == SelectSeq(rows, LAMBDA r : r.account_group = g)

\* C6: on a slice whose rows are all Revenue, COGS or OPEX, kpis returns
\* Revenue = the sum of signed_amount over the Revenue rows, Gross Profit =
\* Revenue + the sum over the COGS rows, EBIT = Gross Profit + the sum over
\* the OPEX rows, and so EBIT = the sum of signed_amount over the slice.
C6_Kpis ==
    (/\ PageShown("Overview")
     /\ \A i \in DOMAIN FilteredRows :
            FilteredRows[i].account_group \in {"Revenue", "COGS", "OPEX"})
    => /\ view.k.Revenue = Total(OfGroup(FilteredRows, "Revenue"))
       /\ view.k.Gross_Profit = view.k.Revenue + Total(OfGroup(FilteredRows, "COGS"))
       /\ view.k.EBIT = view.k.Gross_Profit + Total(OfGroup(FilteredRows, "OPEX"))
       /\ view.k.EBIT = Total(FilteredRows)

\* C6 witness: revenue 1000, COS 400, G&A 200 give Revenue 1000, Gross
\* Profit 600, EBIT 400
C6_Witness ==
    /\ PageShown("Overview")
    /\ Len(FilteredRows) = 3
    /\ view.k = [Revenue |-> 1000, Gross_Profit |-> 600, EBIT |-> 400]

RECURSIVE SumColumn(_, _)
\* the sum of column c over the lines of a monthly table
SumColumn(lines, c) ==
    IF lines = <<>> THEN 0 ELSE Head(lines)[c] + SumColumn(Tail(lines), c)

\* C7: for the table load_all returns and every year Y in it, the Revenue,
\* COGS and OPEX columns of monthly_pnl summed over the lines of year Y are
\* the totals of the three groups over the rows of year Y, and the Gross
\* Profit and EBIT columns sum to what kpis returns on those rows; a month
\* without rows of a group has 0 in that group's column.
C7_MonthlySums ==
    (PageShown("Overview") /\ view.in.year = All /\ tx_user.none) =>
        /\ \A Y \in Range(YearsOf(loaded.tx.rows)) :
            LET lines == SelectSeq(view.MN, LAMBDA l : l.year = Y)
                slice == SelectSeq(loaded.tx.rows, LAMBDA r : r.year = Y)
                k     == kpis(Table(loaded.tx.cols, slice))
            IN  /\ lines # <<>>
                /\ SumColumn(lines, "Revenue") = Total(OfGroup(slice, "Revenue"))
                /\ SumColumn(lines, "COGS") = Total(OfGroup(slice, "COGS"))
                /\ SumColumn(lines, "OPEX") = Total(OfGroup(slice, "OPEX"))
                /\ SumColumn(lines, "Revenue") = k.Revenue
                /\ SumColumn(lines, "Gross_Profit") = k.Gross_Profit
                /\ SumColumn(lines, "EBIT") = k.EBIT
        /\ \A i \in DOMAIN view.MN :
            \A g \in {"Revenue", "COGS", "OPEX"} :
                (\A j \in DOMAIN loaded.tx.rows :
                    LET r == loaded.tx.rows[j]
                    IN  ~(/\ r.year = view.MN[i].year
                          /\ r.month = view.MN[i].month
                          /\ r.account_group = g))
                => view.MN[i][g] = 0

\* C7 witness: a year with two Revenue rows in January and a COGS row in
\* April, so that January has 0 in the COGS column
C7_Witness ==
    /\ PageShown("Overview") /\ view.in.year = All /\ tx_user.none
    /\ Len(view.MN) = 2
    /\ view.MN[1].year = 2024 /\ view.MN[1].month = 1
    /\ view.MN[1].Revenue = 2000 /\ view.MN[1].COGS = 0
    /\ view.MN[2].year = 2024 /\ view.MN[2].month = 4
    /\ view.MN[2].Revenue = 0 /\ view.MN[2].COGS = -400

\* the rows the statement of the last run was drawn from
StatementFrame == Table(WorkingTx.cols, FilteredRows)

\* the number of times row r occurs in rows
Count(rows, r) == Cardinality({i \in DOMAIN rows : rows[i] = r})

QuarterMonths ==
    [Q1 |-> {1, 2, 3}, Q2 |-> {4, 5, 6}, Q3 |-> {7, 8, 9}, Q4 |-> {10, 11, 12}]

QuarterSlice(Y, q) == slice_period(StatementFrame, Y, "Quarter", q, NoMonth).rows

YearSlice(Y) == slice_period(StatementFrame, Y, "Year", NoQuarter, NoMonth).rows

\* the four quarter slices of year Y hold the rows of the year slice, each
\* as often as the year slice does and no row twice
QuartersPartition(Y) ==
    /\ \A r \in Range(YearSlice(Y)) :
        Count(YearSlice(Y), r)
            = Count(QuarterSlice(Y, "Q1"), r) + Count(QuarterSlice(Y, "Q2"), r)
              + Count(QuarterSlice(Y, "Q3"), r) + Count(QuarterSlice(Y, "Q4"), r)
    /\ \A q \in DOMAIN QuarterMonths :
        /\ Range(QuarterSlice(Y, q)) \subseteq Range(YearSlice(Y))
        /\ \A p \in DOMAIN QuarterMonths \ {q} :
            Range(QuarterSlice(Y, q)) \cap Range(QuarterSlice(Y, p)) = {}

\* the slice of the last run is the rows that pass the year filter, the
\* quarter filter and the month filter together
FiltersIntersect ==
    view.S.rows =
        SelectSeq(FilteredRows,
            LAMBDA r : /\ r.year = view.in.sel_year
                       /\ view.in.gran = "Quarter" => r.month \in QuarterMonths[view.in.sel_q]
                       /\ view.in.gran = "Month" => r.month = view.in.sel_month)

\* C8 as stated: for every working transaction table and every year Y of
\* it, the four quarter slices are pairwise disjoint and together are the
\* year slice, and the slice shown is the intersection of the year, quarter
\* and month filters.
C8_QuarterPartition ==
    PageShown("Table") =>
        /\ \A Y \in Range(YearsOf(FilteredRows)) : QuartersPartition(Y)
        /\ FiltersIntersect

\* C8 on the table load_all returns, whose rows have their year and month
\* from one date: the quarter slices partition the year slice.
C8_LoadedPartition ==
    (PageShown("Table") /\ tx_user.none) =>
        /\ \A Y \in Range(YearsOf(FilteredRows)) : QuartersPartition(Y)
        /\ FiltersIntersect

\* C9 as stated: on the statement Gross Profit is the Revenue subtotal minus
\* the absolute value of the COGS subtotal, Net Profit is Gross Profit plus
\* the Other Income total minus the absolute value of the OPEX subtotal, and
\* without Other Income rows they are the Gross Profit and EBIT of kpis on
\* the same slice.
C9_StatementTotals ==
    PageShown("Table") =>
        /\ view.gross_profit = view.rev_total - Abs(view.cogs_total)
        /\ view.net_profit
               = view.gross_profit + view.other_total - Abs(view.opex_total)
        /\ view.other_rows = <<>> =>
               /\ view.gross_profit = kpis(view.S).Gross_Profit
               /\ view.net_profit = kpis(view.S).EBIT

\* C10: a ratio whose denominator is 0 is 0, and the page does not raise:
\* the four margins of the Overview when revenue is 0, its two budget
\* utilizations when the budget total is 0 or the budget table is empty, the
\* year-over-year change of the Revenue page when the sum of the year before
\* is 0, and its budget variance percentage when the budget value is 0.
C10_ZeroDenominator ==
    /\ (view.page \in {"Overview", "Revenue"} /\ tx_user.none /\ bd_user.none)
            => view.err = ""
    /\ PageShown("Overview") =>
        /\ view.k.Revenue = 0 =>
            /\ view.gp_margin = ZeroPct /\ view.np_margin = ZeroPct
            /\ view.cogs_ratio = ZeroPct /\ view.opex_ratio = ZeroPct
        /\ view.total_budget_cogs = 0 => view.budget_util_pct = ZeroPct
        /\ (view.total_budget = 0 \/ empty(WorkingBd)) => view.budget_util = ZeroPct
        /\ empty(WorkingBd) => view.budget_util_pct = ZeroPct
    /\ PageShown("Revenue") =>
        /\ view.prev_sum = 0 => view.yoy_pct = ZeroPct
        /\ view.budget_val.num = 0 => view.variance_pct = ZeroPct

\* C10 witness: an Overview of costs without revenue against a budget file
\* whose amounts are all 0
C10_Witness ==
    /\ PageShown("Overview")
    /\ view.k.Revenue = 0 /\ view.cogs_val = -400 /\ view.opex_val = -200
    /\ ~empty(WorkingBd) /\ view.total_budget = 0 /\ view.total_budget_cogs = 0
    /\ view.gp_margin = ZeroPct /\ view.cogs_ratio = ZeroPct
    /\ view.budget_util_pct = ZeroPct /\ view.budget_util = ZeroPct

-----------------------------------------------------------------------------
(* Properties of the concentration cards                                    *)

RECURSIVE LinesTotal(_)
\* the total of the amounts of the lines of a leaderboard
LinesTotal(lines) ==
    IF lines = <<>> THEN 0 ELSE Head(lines).amount + LinesTotal(Tail(lines))

FirstFive(lines) == SubSeq(lines, 1, IF Len(lines) < 5 THEN Len(lines) ELSE 5)

\* the share is top-5 sum / total sum, and 0 when the total sum is 0
ShareAsStated(share, lines) ==
    IF LinesTotal(lines) = 0 THEN share.num = 0
    ELSE share.num * LinesTotal(lines) = LinesTotal(FirstFive(lines)) * share.den
         /\ share.den # 0

\* C11 as stated: the concentration shown on the Overview page (customers)
\* and on the Revenue page (projects) is the sum of the first five lines over
\* the sum of all lines, and 0 whenever the sum of all lines is 0.
C11_Top5Share ==
    /\ (PageShown("Overview") /\ view.top5_share # NoShare)
            => ShareAsStated(view.top5_share, view.rev_by_cust)
    /\ (PageShown("Revenue") /\ view.top5_share # NoShare)
            => ShareAsStated(view.top5_share, view.by_proj)

\* C11 on tables whose lines do not cancel: the share is the sum of the
\* first five lines over the sum of all lines.
C11_Top5ShareNonZero ==
    /\ (PageShown("Overview") /\ view.top5_share # NoShare
            /\ LinesTotal(view.rev_by_cust) # 0)
            => ShareAsStated(view.top5_share, view.rev_by_cust)
    /\ (PageShown("Revenue") /\ view.top5_share # NoShare
            /\ LinesTotal(view.by_proj) # 0)
            => ShareAsStated(view.top5_share, view.by_proj)

-----------------------------------------------------------------------------
(* Properties of the budget                                                 *)

NoBudgetFile == LoadReturned /\ ~bsrc.exists /\ bd_user.none

\* C12: without a budget file load_all returns a budget table with the
\* columns year, account_group, budget_amount and no rows; with it the pages
\* do not raise, the Revenue page shows budget 0, variance = the revenue of
\* the slice and variance percentage 0, and the Overview shows both budget
\* utilizations as 0.
C12_NoBudget ==
    NoBudgetFile =>
        /\ loaded.bd.cols = {"year", "account_group", "budget_amount"}
        /\ loaded.bd.rows = <<>>
        /\ (view.page \in {"Overview", "Revenue"} /\ tx_user.none) => view.err = ""
        /\ PageShown("Revenue") =>
            /\ view.budget_val.num = 0
            /\ view.variance_val.num = view.total_rev * view.variance_val.den
            /\ view.variance_pct = ZeroPct
        /\ PageShown("Overview") =>
            /\ view.total_budget = 0 /\ view.total_budget_cogs = 0
            /\ view.budget_util = ZeroPct /\ view.budget_util_pct = ZeroPct

\* C12 witness: the Revenue page of a year with revenue 1000 and no budget
\* file
C12_Witness ==
    /\ NoBudgetFile
    /\ PageShown("Revenue")
    /\ view.in.year_rev = 2024
    /\ view.total_rev = 1000
    /\ view.budget_val.num = 0
    /\ view.variance_val = [num |-> 12000, den |-> 12]
    /\ view.variance_pct = ZeroPct

\* the classified lines of the budget file
ClassifiedBudgetLines ==
    SelectSeq(bsrc.rows, LAMBDA r : TableGroup(r) # Null)

BudgetLineYear(r) == to_datetime(r.DATE).y

\* the month of a budget line: its month cell when the file has a month
\* column, else the month of its date
BudgetLineMonth(r) ==
    IF HasHeader(bsrc, "month") THEN r.month ELSE to_datetime(r.DATE).m

RECURSIVE BudgetCells(_)
BudgetCells(rows) ==
    IF rows = <<>> THEN 0
    ELSE (IF IsNum(Head(rows).BUDGET) THEN Head(rows).BUDGET ELSE 0)
         + BudgetCells(Tail(rows))

RECURSIVE BudgetTotal(_)
BudgetTotal(rows) ==
    IF rows = <<>> THEN 0 ELSE Head(rows).budget_amount + BudgetTotal(Tail(rows))

\* C13 as stated: the budget table has exactly one row for each (year,
\* month, account_group) that occurs among the classified lines of the
\* budget file, its budget_amount is the sum of those lines, and the total
\* of the table is the total of the classified lines.
C13_BudgetRows ==
    (LoadReturned /\ bsrc.exists) =>
        LET lines  == ClassifiedBudgetLines
            key(r) == <<BudgetLineYear(r), BudgetLineMonth(r), TableGroup(r)>>
            keys   == {key(lines[i]) : i \in DOMAIN lines}
        IN  /\ Len(loaded.bd.rows) = Cardinality(keys)
            /\ \A k \in keys :
                \E i \in DOMAIN loaded.bd.rows :
                    /\ loaded.bd.rows[i].year = k[1]
                    /\ loaded.bd.rows[i].account_group = k[3]
                    /\ loaded.bd.rows[i].budget_amount
                           = BudgetCells(SelectSeq(lines, LAMBDA r : key(r) = k))
            /\ BudgetTotal(loaded.bd.rows) = BudgetCells(lines)

\* C13, what the code does: one row for each (year, account_group) among
\* the classified lines whose date gives a year, with the sum of those
\* lines; the months are merged and the lines without a year are left out.
C13_YearGroupRows ==
    (LoadReturned /\ bsrc.exists) =>
        LET lines  == SelectSeq(ClassifiedBudgetLines,
                                LAMBDA r : BudgetLineYear(r) # NaN)
            key(r) == <<BudgetLineYear(r), TableGroup(r)>>
            keys   == {key(lines[i]) : i \in DOMAIN lines}
        IN  /\ Len(loaded.bd.rows) = Cardinality(keys)
            /\ \A k \in keys :
                \E i \in DOMAIN loaded.bd.rows :
                    /\ loaded.bd.rows[i].year = k[1]
                    /\ loaded.bd.rows[i].account_group = k[2]
                    /\ loaded.bd.rows[i].budget_amount
                           = BudgetCells(SelectSeq(lines, LAMBDA r : key(r) = k))
            /\ BudgetTotal(loaded.bd.rows) = BudgetCells(lines)
            /\ "month" \notin loaded.bd.cols

-----------------------------------------------------------------------------
(* Uploads: Append and Replace (Spec)                                       *)

\* an upload that "Apply uploads" reads and normalises without an exception
Applies(up_tx) == up_tx.chosen /\ ~apply_tx_raises(up_tx)

\* the columns of the table load_all returned: the canonical columns
CanonicalColumns == loaded.tx.cols

RowCount(t) == Len(t.rows)

\* the canonical columns every page needs
DerivedColumns == {"account_group", "signed_amount", "year", "month"}

PageNames == {"Overview", "Revenue", "Expenses", "Table"}

\* every page under every setting of the global year filter
AnyPageInputs == {[Widgets(p) EXCEPT !.year = y] : p \in PageNames, y \in YearInputs}

\* what "Apply uploads" stores when it is pressed in the current state with
\* the transactions file up_tx in the given mode
Applied(up_tx, mode) == apply_tx(up_tx, mode, loaded.tx, tx_user)

\* the working table of that run once it has drawn the page of the widgets in
AfterApply(applied, in) == working_tx(loaded, tx_user_after(in, applied))

\* C14 as stated: in every state of a session, appending an upload whose
\* columns are all canonical columns gives a working table with as many rows
\* as the working table before plus the uploaded rows, with canonical
\* columns only, and with account_group, signed_amount, year and month
\* among them.
C14_AppendSubset ==
    SessionRan =>
        \A up_tx \in {u \in TxUploads : Applies(u) /\ u.cols \subseteq CanonicalColumns} :
          \A applied \in {Applied(up_tx, "Append")}, in \in AnyPageInputs :
            \A after \in {AfterApply(applied, in)} :
                /\ RowCount(after) = RowCount(WorkingTx) + RowCount(up_tx)
                /\ after.cols \subseteq CanonicalColumns
                /\ DerivedColumns \subseteq after.cols

\* What the code guarantees for C14: the row count is that of the loaded
\* table plus the uploaded rows, and the columns are the canonical columns
\* that the normalised upload has.
C14_AppendToLoaded ==
    SessionRan =>
        \A up_tx \in {u \in TxUploads : Applies(u) /\ u.cols \subseteq CanonicalColumns} :
          \A applied \in {Applied(up_tx, "Append")}, in \in AnyPageInputs :
            \A after \in {AfterApply(applied, in)} :
                /\ RowCount(after) = RowCount(loaded.tx) + RowCount(up_tx)
                /\ after.cols =
                        CanonicalColumns
                        \cap (_ensure_period_cols_of(up_tx.cols)
                              \cup (IF derives_signed(up_tx.cols)
                                    THEN {"signed_amount"} ELSE {}))

\* the rows of a table cut down to the columns cols
RowsOn(t, cols) == MapRows(t.rows, LAMBDA r : Project(r, cols))

\* the rows an upload contributes: normalised against the canonical table
UploadedRows(up_tx) == _normalize_uploaded_tx(up_tx, loaded.tx)

\* C15 as stated: in every state of a session, after appending an upload the
\* working table is the rows of the working table before, in their order,
\* followed by the uploaded rows in their order (compared on the columns the
\* new working table has); so a second Append keeps the rows of the first.
C15_AppendOrder ==
    SessionRan =>
        \A up_tx \in {u \in TxUploads : Applies(u)} :
          \A applied \in {Applied(up_tx, "Append")}, in \in AnyPageInputs :
            \A after \in {AfterApply(applied, in)} :
                after.rows = RowsOn(WorkingTx, after.cols)
                             \o RowsOn(UploadedRows(up_tx), after.cols)

\* What the code guarantees for C15: the rows of the loaded table, in their
\* order, followed by the uploaded rows; whatever was uploaded before is gone.
C15_AppendAfterLoaded ==
    SessionRan =>
        \A up_tx \in {u \in TxUploads : Applies(u)} :
          \A applied \in {Applied(up_tx, "Append")}, in \in AnyPageInputs :
            \A after \in {AfterApply(applied, in)} :
                after.rows = RowsOn(loaded.tx, after.cols)
                             \o RowsOn(UploadedRows(up_tx), after.cols)

\* the accounts of the rows of a table
AccountsOf(t) == {t.rows[i].ACCOUNT : i \in DOMAIN t.rows}

\* C16: in every state of a session, whatever was loaded and uploaded
\* before, replacing by a transactions file gives a working table that is
\* the normalised upload: its columns, its rows in their order, as many rows
\* as the file has, each with the account of the file's row, and no other.
C16_ReplaceExact ==
    SessionRan =>
        \A up_tx \in {u \in TxUploads : Applies(u)} :
          \A applied \in {Applied(up_tx, "Replace")}, in \in AnyPageInputs :
            \A after \in {AfterApply(applied, in)}, new \in {UploadedRows(up_tx)} :
                /\ after.cols = new.cols
                /\ after.rows = new.rows
                /\ RowCount(after) = RowCount(up_tx)
                /\ \A i \in DOMAIN up_tx.rows :
                        after.rows[i].ACCOUNT = up_tx.rows[i].ACCOUNT

\* a replacement is in force: the working table is the one row of an upload
\* and the loaded rows are not in it
C16_Witness ==
    /\ SessionRan
    /\ ~tx_user.none
    /\ RowCount(loaded.tx) >= 1
    /\ RowCount(WorkingTx) = 1
    /\ AccountsOf(WorkingTx) = {"Consulting"}
    /\ AccountsOf(loaded.tx) \cap AccountsOf(WorkingTx) = {}
-----------------------------------------------------------------------------
(* Upload normalisation: the derived signed_amount (Spec)                   *)

\* the upload has AMOUNT and no signed_amount: the column is derived
DerivesSign(up_tx) == derives_signed(up_tx.cols)

\* C17 as stated: in every state of a session, the normalised rows of an
\* upload with AMOUNT and without signed_amount have, where AMOUNT is a
\* number, signed_amount +|AMOUNT| for Revenue and -|AMOUNT| for COGS and
\* OPEX when the upload has an account_group column, and AMOUNT itself when
\* it has not.
C17_DerivedSign ==
    SessionRan =>
        \A up_tx \in TxUploads :
            (Applies(up_tx) /\ DerivesSign(up_tx))
            => \A i \in DOMAIN up_tx.rows :
                LET a == up_tx.rows[i].AMOUNT
                    g == up_tx.rows[i].account_group
                    s == UploadedRows(up_tx).rows[i].signed_amount
                IN  IsNum(a) =>
                        IF "account_group" \in up_tx.cols
                        THEN /\ g = "Revenue" => s = Abs(a)
                             /\ g \in {"COGS", "OPEX"} => s = 0 - Abs(a)
                        ELSE s = a

\* What the code guarantees for C17: a Revenue row keeps AMOUNT as it is,
\* negative or not; every other row gets -|AMOUNT|; without an account_group
\* column signed_amount is AMOUNT.
C17_RevenueKeepsAmount ==
    SessionRan =>
        \A up_tx \in TxUploads :
            (Applies(up_tx) /\ DerivesSign(up_tx))
            => \A i \in DOMAIN up_tx.rows :
                LET a == up_tx.rows[i].AMOUNT
                    g == up_tx.rows[i].account_group
                    s == UploadedRows(up_tx).rows[i].signed_amount
                IN  IsNum(a) =>
                        IF "account_group" \in up_tx.cols
                        THEN /\ g = "Revenue" => s = a
                             /\ g # "Revenue" => s = 0 - Abs(a)
                        ELSE s = a
-----------------------------------------------------------------------------
(* Pages and the session's tables (Spec)                                    *)

\* C18: in every state of a session, rendering any page under any filter
\* leaves the session's transaction table and budget table as they are:
\* same columns, same rows, same values.
C18_PagesLeaveTables ==
    SessionRan =>
        \A in \in AnyPageInputs :
            /\ tx_user_after(in, tx_user) = tx_user
            /\ bd_user_after(in, WorkingTx, bd_user) = bd_user

\* the Overview page was drawn over all years on an uploaded table with a
\* date column, and on an uploaded budget: lines 213-214 wrote into the
\* session's table
C18_Witness ==
    /\ SessionRan
    /\ view.page = "Overview" /\ view.err = "" /\ view.in.year = All
    /\ ~tx_user.none /\ "date" \in tx_user.cols /\ RowCount(tx_user) >= 2
    /\ ~bd_user.none /\ ~empty(bd_user)
-----------------------------------------------------------------------------
(* Empty input (SpecPages)                                                  *)

\* the last run was of page p, whether it raised or not
PageRun(p) == loaded.status = "ok" /\ view.page = p

\* the rows the statement's period filter leaves
StatementSliceRows ==
    slice_period(StatementFrame, view.in.sel_year, view.in.gran, view.in.sel_q,
                 view.in.sel_month).rows

ZeroKpis == [Revenue |-> 0, Gross_Profit |-> 0, EBIT |-> 0]

\* the statement of the last run has empty sections and totals 0
EmptyStatement ==
    /\ view.S.rows = <<>>
    /\ view.rev_rows = <<>> /\ view.cogs_rows = <<>>
    /\ view.opex_rows = <<>> /\ view.other_rows = <<>>
    /\ view.rev_total = 0 /\ view.cogs_total = 0
    /\ view.opex_total = 0 /\ view.other_total = 0
    /\ view.gross_profit = 0 /\ view.net_profit = 0

\* C19 as stated: a run whose input slice has no rows does not raise; on
\* the Overview page kpis gives Revenue, Gross Profit and EBIT 0 and
\* monthly_pnl gives no rows; on the statement the period slice is empty,
\* the sections are empty and the totals are 0, also when the working table
\* has no rows and so no year to select.
C19_EmptyInput ==
    /\ (PageRun("Overview") /\ FilteredRows = <<>>)
        => (view.err = "" /\ view.k = ZeroKpis /\ view.MN = <<>>)
    /\ (PageRun("Table") /\ StatementSliceRows = <<>>)
        => (view.err = "" /\ EmptyStatement)

\* What the code guarantees for C19: the same on the Overview page; on the
\* statement only when the table has a year to select (and a classification
\* column that is not all blank).
C19_EmptySliceOfAYear ==
    /\ (PageRun("Overview") /\ FilteredRows = <<>>)
        => (view.err = "" /\ view.k = ZeroKpis /\ view.MN = <<>>)
    /\ (/\ PageRun("Table") /\ StatementSliceRows = <<>>
        /\ YearsOf(FilteredRows) # <<>>
        /\ ~str_accessor_raises(WorkingTx))
        => (view.err = "" /\ EmptyStatement)
    /\ (PageRun("Table") /\ YearsOf(FilteredRows) = <<>>) => view.err # ""
-----------------------------------------------------------------------------
(* The Revenue page's budget (SpecPages)                                    *)

\* the budget table has no month data: no month column, or a blank one
NoMonthData(bd) ==
    "month" \notin bd.cols \/ \A i \in DOMAIN bd.rows : bd.rows[i].month = NaN

\* the annual Revenue budget of year y: the sum of its Revenue lines
AnnualRevenueBudget(bd, y) ==
    BudgetSum(SelectSeq(bd.rows, LAMBDA b : b.account_group = "Revenue" /\ b.year = y))

-----------------------------------------------------------------------------
(* The sections of the statement (SpecStatement)                           *)

StatementSections == {"Revenue", "COGS", "OPEX", "Other Income"}

\* a row is an Other Income row: its Short_CLASS or CLASS says so
IsOtherIncome(r) ==
    contains_other_income(r.Short_CLASS) \/ contains_other_income(r.CLASS)

\* the rows of the period slice that belong to a section
SectionSlice(g) ==
    IF g = "Other Income" THEN SelectSeq(view.S.rows, IsOtherIncome)
    ELSE OfGroup(view.S.rows, g)

\* the line items and the subtotal the statement shows for a section
SectionLines(g) ==
    CASE g = "Revenue" -> view.rev_rows
      [] g = "COGS" -> view.cogs_rows
      [] g = "OPEX" -> view.opex_rows
      [] g = "Other Income" -> view.other_rows

SectionTotal(g) ==
    CASE g = "Revenue" -> view.rev_total
      [] g = "COGS" -> view.cogs_total
      [] g = "OPEX" -> view.opex_total
      [] g = "Other Income" -> view.other_total

\* the name a line item carries for an account
AccountLabel(a) == IF a = Null THEN "Unknown" ELSE a

\* lines are the per-account sums of rows: one line for each account of the
\* rows, none else, each with the sum of the account's signed amounts
PerAccountSums(lines, rows) ==
    /\ \A i \in DOMAIN rows :
           \E j \in DOMAIN lines : lines[j].account = AccountLabel(rows[i].ACCOUNT)
    /\ \A j \in DOMAIN lines :
           /\ \E i \in DOMAIN rows : AccountLabel(rows[i].ACCOUNT) = lines[j].account
           /\ lines[j].amount =
                  Total(SelectSeq(rows,
                            LAMBDA r : AccountLabel(r.ACCOUNT) = lines[j].account))
           /\ \A k \in DOMAIN lines : lines[k].account = lines[j].account => k = j

\* largest absolute amount first
DescendingMagnitude(lines) ==
    \A i, j \in DOMAIN lines : i < j => Abs(lines[i].amount) >= Abs(lines[j].amount)

\* largest signed amount first
DescendingAmount(lines) ==
    \A i, j \in DOMAIN lines : i < j => lines[i].amount >= lines[j].amount

C21_SectionLinesSigned ==
    PageShown("Table") =>
        \A g \in StatementSections :
            /\ PerAccountSums(SectionLines(g),
                   IF g = "Other Income"
                   THEN SelectSeq(SectionSlice(g), LAMBDA r : r.ACCOUNT # Null)
                   ELSE SectionSlice(g))
            /\ DescendingAmount(SectionLines(g))
            /\ g = "Revenue" => DescendingMagnitude(SectionLines(g))
            /\ SectionTotal(g) = LinesTotal(SectionLines(g))

-----------------------------------------------------------------------------
(* Uploads: the period columns (Spec)                                       *)

\* the uploaded table has a date column, named date or Date
HasDateColumn(up_tx) == "date" \in up_tx.cols \/ "Date" \in up_tx.cols

\* the date cell of an uploaded row
DateCell(up_tx, r) == IF "date" \in up_tx.cols THEN r.date ELSE r.Date

\* the normalised rows carry year and month, taken from the date of each row
CarriesPeriod(up_tx, new) ==
    /\ {"year", "month"} \subseteq new.cols
    /\ \A i \in DOMAIN up_tx.rows :
           /\ new.rows[i].year = to_datetime(DateCell(up_tx, up_tx.rows[i])).y
           /\ new.rows[i].month = to_datetime(DateCell(up_tx, up_tx.rows[i])).m

\* C22 as stated: in every state of a session, normalising an uploaded
\* transaction table that has a date column, named date or Date, gives a
\* table with year and month columns holding the year and the month of
\* every row's date.
C22_UploadPeriod ==
    SessionRan =>
        \A up_tx \in {u \in TxUploads : Applies(u) /\ HasDateColumn(u)} :
            \A new \in {UploadedRows(up_tx)} : CarriesPeriod(up_tx, new)

\* What the code guarantees for C22: the period is derived from a column
\* named date; a table that names it Date and brings no year of its own is
\* left without year and month.
C22_LowercaseDateOnly ==
    SessionRan =>
        \A up_tx \in {u \in TxUploads : Applies(u)} :
            \A new \in {UploadedRows(up_tx)} :
                /\ "date" \in up_tx.cols => CarriesPeriod(up_tx, new)
                /\ ("date" \notin up_tx.cols /\ "year" \notin up_tx.cols)
                       => "year" \notin new.cols /\ "month" \notin new.cols

-----------------------------------------------------------------------------
(* Uploads: a failed Apply (Spec)                                           *)

\* "Apply uploads" with the files up = <<up_tx, up_bd>> ends in the except
\* branch: reading or normalising one of the two files raises
ApplyFails(up) == apply_tx_raises(up[1]) \/ apply_bd_raises(up[2])

\* the session overrides <<tx_user, bd_user>> when "Apply uploads" has been
\* pressed in the current state with the files up in the given mode
AppliedBoth(up, mode) ==
    apply_uploads(up[1], up[2], mode, loaded.tx, loaded.bd, tx_user, bd_user)

\* C23 as stated: in every state of a session, an Apply that fails on either
\* file leaves the transaction override and the budget override exactly as
\* they were.
C23_FailedApplyKeepsBoth ==
    SessionRan =>
        \A up \in {u \in UploadChoices : ApplyFails(u)}, mode \in Modes :
            AppliedBoth(up, mode) = <<tx_user, bd_user>>

\* What the code guarantees for C23: a failure in the transactions file
\* leaves both overrides; a failure in the budget file leaves the budget
\* override, the transactions half of the Apply having been carried out.
C23_FailedApplyKeepsBudget ==
    SessionRan =>
        \A up \in {u \in UploadChoices : ApplyFails(u)}, mode \in Modes :
            \A new \in {AppliedBoth(up, mode)} :
                /\ new[2] = bd_user
                /\ apply_tx_raises(up[1]) => new[1] = tx_user
                /\ ~apply_tx_raises(up[1]) => new[1] = Applied(up[1], mode)

-----------------------------------------------------------------------------
(* Uploads: a table without a file (Spec)                                   *)

\* an override after an Apply that had no file for its table
KeptOrCleared(mode, old_user) == IF mode = "Replace" THEN None ELSE old_user

\* C24 as stated: in every state of a session and for each table, an Apply
\* with no file for the table leaves its override unchanged in Append mode
\* and clears it in Replace mode; after a Replace without a transactions
\* file the working transaction table is the table of load_all.
C24_AsStated ==
    SessionRan =>
        \A up \in UploadChoices, mode \in Modes :
            \A new \in {AppliedBoth(up, mode)} :
                /\ ~up[1].chosen => new[1] = KeptOrCleared(mode, tx_user)
                /\ ~up[2].chosen => new[2] = KeptOrCleared(mode, bd_user)
                /\ (~up[1].chosen /\ mode = "Replace") =>
                       \A in \in AnyPageInputs : AfterApply(new[1], in) = loaded.tx

\* C24 for the Applies that get as far as the table: the transactions
\* override always, the budget override when the transactions file, if there
\* is one, was read and normalised; when it was not, the budget override is
\* left as it was in both modes.
C24_NoFileKeepsOrClears ==
    SessionRan =>
        \A up \in UploadChoices, mode \in Modes :
            \A new \in {AppliedBoth(up, mode)} :
                /\ ~up[1].chosen => new[1] = KeptOrCleared(mode, tx_user)
                /\ (~up[2].chosen /\ ~apply_tx_raises(up[1]))
                       => new[2] = KeptOrCleared(mode, bd_user)
                /\ (~up[2].chosen /\ apply_tx_raises(up[1])) => new[2] = bd_user
                /\ (~up[1].chosen /\ mode = "Replace") =>
                       \A in \in AnyPageInputs : AfterApply(new[1], in) = loaded.tx

\* both overrides hold uploads, and a Replace that supplies only a budget
\* file clears the transaction override: the working table is the loaded one
C24_Witness ==
    /\ SessionRan
    /\ ~tx_user.none /\ ~bd_user.none /\ WorkingTx # loaded.tx
    /\ \E up \in UploadChoices :
           /\ ~up[1].chosen /\ up[2].chosen /\ ~ApplyFails(up)
           /\ AppliedBoth(up, "Replace")[1] = None
           /\ ~AppliedBoth(up, "Replace")[2].none
           /\ working_tx(loaded, AppliedBoth(up, "Replace")[1]) = loaded.tx

-----------------------------------------------------------------------------
(* The override across reruns (Spec)                                        *)

\* the widget settings of the reruns of a session
SessionInputs ==
    SessionOverviewInputs \cup SessionRevenueInputs
    \cup SessionExpensesInputs \cup SessionStatementInputs

\* C25: in every state of a session the working transaction table is the
\* uploaded override when there is one and the table of load_all exactly
\* when there is none; the page of the last run was drawn from it; and a
\* rerun of the script on any page leaves the override as it is, so the
\* override stays the working table until an Apply stores another.
C25_OverrideStaysWorking ==
    SessionRan =>
        /\ ~tx_user.none => WorkingTx = tx_user
        /\ WorkingTx = loaded.tx <=> tx_user.none
        /\ view = page_view(view.in, WorkingTx, WorkingBd)
        /\ \A in \in SessionInputs :
               tx_user_after(Offered(in, WorkingTx), tx_user) = tx_user

\* after an Apply with a transactions file the statement was drawn for the
\* third quarter of 2024: its revenue section is the uploaded row, which the
\* table of load_all does not have
C25_Witness ==
    /\ SessionRan
    /\ ~tx_user.none /\ WorkingTx # loaded.tx
    /\ PageShown("Table") /\ view.in.gran = "Quarter" /\ view.in.sel_q = "Q3"
    /\ view.rev_rows = <<[account |-> "Consulting", amount |-> 70]>>
    /\ "Consulting" \notin AccountsOf(loaded.tx)

-----------------------------------------------------------------------------
(* Rows and sections of the statement (SpecStatement)                      *)

\* the amount of row r is part of the subtotal the statement shows for
\* section g: r is among the rows the section's line items are summed from
Contributes(r, g) ==
    IF g = "Other Income" THEN IsOtherIncome(r) /\ r.ACCOUNT # Null
    ELSE r.account_group = g

SectionsOf(r) == {g \in StatementSections : Contributes(r, g)}

\* C26 as stated: on the statement every row of the period slice
\* contributes to exactly one section, and a row whose Short_CLASS or CLASS
\* contains "other income" contributes to Other Income only.
C26_OneSectionPerRow ==
    PageShown("Table") =>
        \A i \in DOMAIN view.S.rows :
            /\ Cardinality(SectionsOf(view.S.rows[i])) = 1
            /\ IsOtherIncome(view.S.rows[i])
                   => SectionsOf(view.S.rows[i]) = {"Other Income"}

\* What the code guarantees for C26: every row of the slice of a loaded
\* table is in exactly one of the sections Revenue, COGS and OPEX, whose
\* subtotals together are the sum of all rows; an Other Income row that has
\* an account is counted in the Other Income subtotal as well.
C26_GroupSectionsPartition ==
    PageShown("Table") =>
        /\ \A i \in DOMAIN view.S.rows :
               /\ Cardinality(SectionsOf(view.S.rows[i]) \cap Groups) = 1
               /\ (IsOtherIncome(view.S.rows[i]) /\ view.S.rows[i].ACCOUNT # Null)
                      => Cardinality(SectionsOf(view.S.rows[i])) = 2
        /\ view.rev_total + view.cogs_total + view.opex_total = Total(view.S.rows)
        /\ view.other_total =
               Total(SelectSeq(view.S.rows, LAMBDA r : Contributes(r, "Other Income")))

-----------------------------------------------------------------------------
(* The keys of the budget (Spec)                                            *)

\* at most one line for each year and account_group
UniqueBudgetKeys(bd) ==
    \A i, j \in DOMAIN bd.rows :
        (/\ bd.rows[i].year = bd.rows[j].year
         /\ bd.rows[i].account_group = bd.rows[j].account_group) => i = j

\* C27 as stated: in every state of a session, whatever budget uploads were
\* applied, the working budget table has at most one row for each
\* (year, account_group).
C27_BudgetKeysUnique == SessionRan => UniqueBudgetKeys(WorkingBd)

\* What the code guarantees for C27: the budget of load_all has one row for
\* each key, and so has the working budget while no budget upload is in
\* force.
C27_LoadedBudgetKeysUnique ==
    SessionRan =>
        /\ UniqueBudgetKeys(loaded.bd)
        /\ bd_user.none => UniqueBudgetKeys(WorkingBd)
=============================================================================
